---- MODULE Spec2Model ----
(***************************************************************************)
(* A model of the bytecode interpreter (solutions/interpreter.py) and of   *)
(* the coverage-guided fuzzer built on it (solutions/fuzzer.py).           *)
(*                                                                         *)
(* Python values are modelled by records of one shape, so that any two of  *)
(* them can be compared: t is the jvm type, k the kind of the Python       *)
(* payload ("int", "bool", "none", "str", "list"), n the payload of an int *)
(* or bool, s the payload of a str or list.  Characters are code points    *)
(* and a Python str is the sequence of its code points.                    *)
(***************************************************************************)
EXTENDS Integers, Sequences, FiniteSets, TLC

VARIABLES
    state,      \* run_method's State: heap, frames, next_ref, string_pool
    status,     \* "run" while run_method loops, else what ended it
    steps,      \* calls of step made by run_method so far
    max_steps,  \* run_method's step budget
    cov,        \* the interpreter's Coverage (on = FALSE: coverage is None)
    hseed,      \* hash((method, offset)) in this process, for each offset of the method
    bc,         \* the method's instructions, as far as the run has read them
    last,       \* history: the instruction of the last step and the state before it
    fz          \* the Fuzzer object and the position of its loop

vars == <<state, status, steps, max_steps, cov, hseed, bc, last, fz>>

----------------------------------------------------------------------------
(* Bounds of the model *)

\* largest step budget of one run
MaxSteps == 4
\* offsets 0..MaxPc can be jump targets
MaxPc == 3
\* stands for Fuzzer.COVERAGE_SIZE (1 << 10), scaled down
COVERAGE_SIZE == 8

----------------------------------------------------------------------------
(* Values *)

EmptyFn == [x \in {} |-> 0]

Put(f, key, v) == [x \in (DOMAIN f) \cup {key} |-> IF x = key THEN v ELSE f[x]]

IntV(n) == [t |-> "int", k |-> "int", n |-> n, s |-> <<>>]
BoolV(b) == [t |-> "bool", k |-> "bool", n |-> IF b THEN 1 ELSE 0, s |-> <<>>]
CharV(c) == [t |-> "char", k |-> "str", n |-> 0, s |-> <<c>>]
RefV(r) == [t |-> "ref", k |-> "int", n |-> r, s |-> <<>>]
NullV == [t |-> "ref", k |-> "none", n |-> 0, s |-> <<>>]
\* the operand of a Push of a string literal
StrLitV(s) == [t |-> "ref", k |-> "str", n |-> 0, s |-> s]
\* a String argument as the fuzzer and the command line pass it
StringV(s) == [t |-> "string", k |-> "str", n |-> 0, s |-> s]

\* Python's == on two payloads (True == 1 and False == 0)
PayloadEq(a, b) ==
    IF a.k \in {"int", "bool"} /\ b.k \in {"int", "bool"}
    THEN a.n = b.n
    ELSE a.k = b.k /\ a.n = b.n /\ a.s = b.s

\* isinstance(v.value, int): bool is a subclass of int
IsIntPayload(v) == v.k \in {"int", "bool"}

\* what get_string returns for None
NoneStr == <<-1>>

\* str.lower() on ASCII
LowerChar(c) == IF c >= 65 /\ c <= 90 THEN c + 32 ELSE c
Lower(s) == [i \in 1..Len(s) |-> LowerChar(s[i])]

\* Python's s[i:j] for 0 <= i <= j <= len(s)
Slice(s, i, j) == SubSeq(s, i + 1, j)

\* Python's // (floor division), b # 0
FloorDiv(a, b) == IF b > 0 THEN a \div b ELSE (0 - a) \div (0 - b)

Abs(a) == IF a < 0 THEN 0 - a ELSE a

\* the quotient truncated toward zero, the JVM's idiv
TruncDiv(a, b) ==
    IF (a < 0) = (b < 0) THEN Abs(a) \div Abs(b) ELSE 0 - (Abs(a) \div Abs(b))

----------------------------------------------------------------------------
(* Instructions *)

NoInstr == [op |-> "none", val |-> NullV, i |-> 0, n |-> 0, c |-> "",
            cls |-> "", name |-> "", desc |-> ""]

Push(v) == [NoInstr EXCEPT !.op = "push", !.val = v]
Incr(i, c) == [NoInstr EXCEPT !.op = "incr", !.i = i, !.n = c]
Pop == [NoInstr EXCEPT !.op = "pop"]
Load(i) == [NoInstr EXCEPT !.op = "load", !.i = i]
Store(i) == [NoInstr EXCEPT !.op = "store", !.i = i]
\* c is the operant: "div", "mul", "add", "sub", or one that is not modeled
Binary(c) == [NoInstr EXCEPT !.op = "binary", !.c = c]
\* c is the type: "int", "void", or one that is not modeled
Return(c) == [NoInstr EXCEPT !.op = "return", !.c = c]
Ifz(c, t) == [NoInstr EXCEPT !.op = "ifz", !.c = c, !.i = t]
If(c, t) == [NoInstr EXCEPT !.op = "if", !.c = c, !.i = t]
Goto(t) == [NoInstr EXCEPT !.op = "goto", !.i = t]
GetStatic == [NoInstr EXCEPT !.op = "get"]
Dup == [NoInstr EXCEPT !.op = "dup"]
New(cls) == [NoInstr EXCEPT !.op = "new", !.cls = cls]
\* a method is str(m) split as the code splits it: class, name, and the
\* prefix of the descriptor the code tests
InvokeSpecial(cls, name, desc) ==
    [NoInstr EXCEPT !.op = "invokespecial", !.cls = cls, !.name = name, !.desc = desc]
InvokeVirtual(cls, name) ==
    [NoInstr EXCEPT !.op = "invokevirtual", !.cls = cls, !.name = name]
InvokeStatic == [NoInstr EXCEPT !.op = "invokestatic"]
Throw == [NoInstr EXCEPT !.op = "throw"]
\* an opcode step has no case for
Unmodeled == [NoInstr EXCEPT !.op = "arraylength"]

JString == "java/lang/String"

----------------------------------------------------------------------------
(* Coverage (fuzzer.py) *)

ZeroBitmap == [i \in 0..(COVERAGE_SIZE - 1) |-> 0]

\* Coverage(bytearray(COVERAGE_SIZE)); ok = FALSE once an index was out of range
NewCoverage == [on |-> TRUE, ok |-> TRUE, bitmap |-> ZeroBitmap, last_loc |-> 0]
NoCoverage == [on |-> FALSE, ok |-> TRUE, bitmap |-> ZeroBitmap, last_loc |-> 0]

\* hash((str(pc.method), pc.offset)) depends on the method's name and on the
\* process (PYTHONHASHSEED).  Its low ten bits for the offsets 0..11, in a
\* process with PYTHONHASHSEED=0, of the method jpamb/cases/T.f:(I)V
HashesOfF == <<147, 1004, 190, 23, 880, 66, 923, 109, 966, 152, 1009, 842>>
\* ... and of the method jpamb/cases/T.m39:(I)V
HashesOfM39 == <<584, 417, 250, 460, 293, 503, 336, 546, 379, 212, 422, 255>>

RECURSIVE BitAnd(_, _)
\* a & b on naturals
BitAnd(a, b) ==
    IF a = 0 \/ b = 0 THEN 0
    ELSE (a % 2) * (b % 2) + 2 * BitAnd(a \div 2, b \div 2)

\* Coverage._loc_id: hash((method, offset)) & (len(bitmap) - 1)
LocId(pc) == BitAnd(hseed[pc + 1], COVERAGE_SIZE - 1)

\* a hit_loc whose counter is a byte that wraps
HitLocWrap(c, loc) ==
    IF ~c.ok THEN c
    ELSE IF loc \notin DOMAIN c.bitmap THEN [c EXCEPT !.ok = FALSE]
    ELSE [c EXCEPT !.bitmap[loc] = (@ + 1) % 256, !.last_loc = loc]

\* Coverage.hit_loc: bitmap[loc] raises IndexError for loc >= len(bitmap)
HitLoc(c, loc) ==
    IF ~c.ok THEN c
    ELSE IF loc \notin DOMAIN c.bitmap THEN [c EXCEPT !.ok = FALSE]
    ELSE [c EXCEPT !.bitmap[loc] = IF @ < 255 THEN @ + 1 ELSE @, !.last_loc = loc]

\* Coverage.hit_pc
HitPc(c, pc) == HitLoc(c, LocId(pc))

\* the chained comparison val1 < 0 == val2 < 0 of log_int32_cmp
ChainedSign(val1, val2) == val1 < 0 /\ 0 = val2 /\ val2 < 0

\* byte b (0 = least significant) of val & (0xFF << (8 * b)), as Python computes it
ByteOf(val, b) == (val \div (256 ^ b)) % 256

\* a comparison feedback that tests every byte on its own
LogInt32CmpFlat(c, pc, val1, val2) ==
    LET loc == LocId(pc)
        sign == ChainedSign(val1, val2) \/ (val1 >= 0 /\ val2 >= 0)
        c4 == IF sign THEN HitLoc(c, loc + 4) ELSE c
        c1 == IF ByteOf(val1, 3) = ByteOf(val2, 3) THEN HitLoc(c4, loc + 1) ELSE c4
        c2 == IF ByteOf(val1, 2) = ByteOf(val2, 2) THEN HitLoc(c1, loc + 2) ELSE c1
    IN  IF ByteOf(val1, 1) = ByteOf(val2, 1) THEN HitLoc(c2, loc + 3) ELSE c2

\* Coverage.log_int32_cmp
LogInt32Cmp(c, pc, val1, val2) ==
    LET loc == LocId(pc)
        sign == ChainedSign(val1, val2) \/ (val1 >= 0 /\ val2 >= 0)
        c4 == HitLoc(c, loc + 4)
        c1 == HitLoc(c4, loc + 1)
        c2 == HitLoc(c1, loc + 2)
        c3 == HitLoc(c2, loc + 3)
    IN  IF ~sign THEN c
        ELSE IF ByteOf(val1, 3) # ByteOf(val2, 3) THEN c4
        ELSE IF ByteOf(val1, 2) # ByteOf(val2, 2) THEN c1
        ELSE IF ByteOf(val1, 1) # ByteOf(val2, 1) THEN c2
        ELSE c3

RECURSIVE StrCmpLoop(_, _, _, _, _)
\* the for loop of log_str_cmp, from index i
StrCmpLoop(c, loc, val1, val2, i) ==
    IF i >= Len(val1) \/ i >= Len(val2) \/ ~c.ok THEN c
    ELSE IF val1[i + 1] = val2[i + 1]
         THEN StrCmpLoop(HitLoc(c, loc + 1 + i), loc, val1, val2, i + 1)
         ELSE c

\* Coverage.log_str_cmp; len(None) and None.lower() raise
LogStrCmp(c, pc, val1, val2, case_sensitive) ==
    IF val1 = NoneStr \/ val2 = NoneStr THEN [c EXCEPT !.ok = FALSE]
    ELSE LET a == IF case_sensitive THEN val1 ELSE Lower(val1)
             b == IF case_sensitive THEN val2 ELSE Lower(val2)
         IN  StrCmpLoop(c, LocId(pc), a, b, 0)

\* Coverage.reset
Reset(c) == [c EXCEPT !.bitmap = ZeroBitmap, !.last_loc = 0]

\* Coverage.score
Score(c) == Cardinality({i \in DOMAIN c.bitmap : c.bitmap[i] # 0})

----------------------------------------------------------------------------
(* The execution state (interpreter.py) *)

\* Frame.from_method: no locals, an empty stack, offset 0
NewFrame(locals) == [locals |-> locals, stack |-> <<>>, pc |-> 0]

\* State({}, Stack.empty().push(frame)): next_ref 0, an empty string_pool
NewState(frame) ==
    [heap |-> EmptyFn, frames |-> <<frame>>, next_ref |-> 0, string_pool |-> EmptyFn]

TopFrame(st) == st.frames[Len(st.frames)]
SetTop(st, f) == [st EXCEPT !.frames[Len(st.frames)] = f]
Need(f, n) == Len(f.stack) >= n
\* the k-th value from the top of the stack, 0 the top
Peek(f, k) == f.stack[Len(f.stack) - k]
PopN(f, n) == [f EXCEPT !.stack = SubSeq(@, 1, Len(@) - n)]
PushF(f, v) == [f EXCEPT !.stack = Append(@, v)]
Adv(f) == [f EXCEPT !.pc = @ + 1]

\* what a step gives: a successor state, an Outcome, or a raised exception
Cont(st, c) == [kind |-> "state", st |-> st, out |-> "", cov |-> c]
Outcome(st, label, c) == [kind |-> "outcome", st |-> st, out |-> label, cov |-> c]
Fault(st, c) == [kind |-> "fault", st |-> st, out |-> "", cov |-> c]

\* alloc_string_literal without the lookup in string_pool
AllocStringLiteralFresh(st, s) ==
    [st |-> [st EXCEPT !.next_ref = @ + 1,
                       !.string_pool = Put(@, s, st.next_ref),
                       !.heap = Put(@, st.next_ref, s)],
     ref |-> st.next_ref]

\* Interpreter.alloc_string_literal
AllocStringLiteral(st, s) ==
    IF s \in DOMAIN st.string_pool
    THEN [st |-> st, ref |-> st.string_pool[s]]
    ELSE [st |-> [st EXCEPT !.next_ref = @ + 1,
                            !.string_pool = Put(@, s, st.next_ref),
                            !.heap = Put(@, st.next_ref, s)],
          ref |-> st.next_ref]

\* an alloc_string_object that hands out a reference and stores nothing
AllocStringObjectUnstored(st, s) ==
    [st |-> [st EXCEPT !.next_ref = @ + 1], ref |-> st.next_ref]

\* Interpreter.alloc_string_object
AllocStringObject(st, s) ==
    [st |-> [st EXCEPT !.next_ref = @ + 1, !.heap = Put(@, st.next_ref, s)],
     ref |-> st.next_ref]

\* Interpreter.get_string: ok = FALSE when it raises (KeyError, assert False)
GetString(st, v) ==
    IF v.k = "none" THEN [ok |-> TRUE, s |-> NoneStr]
    ELSE IF IsIntPayload(v)
         THEN IF v.n \in DOMAIN st.heap
              THEN [ok |-> TRUE, s |-> st.heap[v.n]]
              ELSE [ok |-> FALSE, s |-> NoneStr]
    ELSE IF v.k = "str" THEN [ok |-> TRUE, s |-> v.s]
    ELSE [ok |-> FALSE, s |-> NoneStr]

\* to_int raises for a type other than Int, Char, Boolean
ToIntOk(v) == v.t \in {"int", "char", "bool"}
ToInt(v) ==
    IF v.t = "char" THEN v.s[1]
    ELSE IF v.t = "bool" THEN (IF v.n # 0 THEN 1 ELSE 0)
    ELSE v.n

----------------------------------------------------------------------------
(* Interpreter.step, one operator per case of its match *)

\* case jvm.Push
StepPush(st, f, opr, c) ==
    LET v == opr.val IN
    IF v.t = "ref" /\ v.k \in {"str", "none"}
    THEN IF v.k = "none"
         THEN Cont(SetTop(st, Adv(PushF(f, NullV))), c)
         ELSE LET a == AllocStringLiteral(st, v.s)
              IN  Cont(SetTop(a.st, Adv(PushF(f, RefV(a.ref)))), c)
    ELSE Cont(SetTop(st, Adv(PushF(f, v))), c)

\* case jvm.Incr
StepIncr(st, f, opr, c) ==
    LET old == IF opr.i \in DOMAIN f.locals THEN f.locals[opr.i] ELSE IntV(0) IN
    IF old.t # "int" THEN Fault(st, c)
    ELSE Cont(SetTop(st, Adv([f EXCEPT !.locals = Put(@, opr.i, IntV(old.n + opr.n))])), c)

\* case jvm.Pop
StepPop(st, f, opr, c) ==
    IF ~Need(f, 1) THEN Fault(st, c) ELSE Cont(SetTop(st, Adv(PopN(f, 1))), c)

\* case jvm.Load
StepLoad(st, f, opr, c) ==
    IF opr.i \notin DOMAIN f.locals THEN Fault(st, c)
    ELSE Cont(SetTop(st, Adv(PushF(f, f.locals[opr.i]))), c)

\* case jvm.Store
StepStore(st, f, opr, c) ==
    IF ~Need(f, 1) THEN Fault(st, c)
    ELSE Cont(SetTop(st, Adv([PopN(f, 1) EXCEPT !.locals = Put(@, opr.i, Peek(f, 0))])), c)

\* case jvm.Binary(type=Int, operant=Div)
StepDiv(st, f, opr, c) ==
    IF ~Need(f, 2) THEN Fault(st, c)
    ELSE LET v2 == Peek(f, 0)
             v1 == Peek(f, 1)
         IN  IF v1.t # "int" \/ v2.t # "int" THEN Fault(st, c)
             ELSE IF v2.n = 0 THEN Outcome(SetTop(st, PopN(f, 2)), "divide by zero", c)
             ELSE Cont(SetTop(st, Adv(PushF(PopN(f, 2), IntV(FloorDiv(v1.n, v2.n))))), c)

\* Interpreter._bin_int with the lambdas of the Mul, Add and Sub cases
StepBinInt(st, f, opr, c) ==
    IF ~Need(f, 2) THEN Fault(st, c)
    ELSE LET v2 == Peek(f, 0)
             v1 == Peek(f, 1)
             r == CASE opr.c = "mul" -> v1.n * v2.n
                    [] opr.c = "add" -> v1.n + v2.n
                    [] OTHER -> v1.n - v2.n
         IN  IF v1.t # "int" \/ v2.t # "int" THEN Fault(st, c)
             ELSE Cont(SetTop(st, Adv(PushF(PopN(f, 2), IntV(r)))), c)

\* a Return of an int that drops the value and resumes the caller where it was
StepReturnIntDropped(st, f, opr, c) ==
    IF ~Need(f, 1) THEN Fault(st, c)
    ELSE LET popped == [st EXCEPT !.frames = SubSeq(@, 1, Len(@) - 1)]
         IN  IF Len(popped.frames) > 0
             THEN Cont(popped, c)
             ELSE Outcome(popped, "ok", c)

\* case jvm.Return(type=Int)
StepReturnInt(st, f, opr, c) ==
    IF ~Need(f, 1) THEN Fault(st, c)
    ELSE LET v1 == Peek(f, 0)
             popped == [st EXCEPT !.frames = SubSeq(@, 1, Len(@) - 1)]
         IN  IF Len(popped.frames) > 0
             THEN Cont(SetTop(popped, Adv(PushF(TopFrame(popped), v1))), c)
             ELSE Outcome(popped, "ok", c)

\* case jvm.Return(type=None)
StepReturnVoid(st, f, opr, c) ==
    LET popped == [st EXCEPT !.frames = SubSeq(@, 1, Len(@) - 1)] IN
    IF Len(popped.frames) > 0
    THEN Cont(SetTop(popped, Adv(TopFrame(popped))), c)
    ELSE Outcome(popped, "ok", c)

\* the comparators of the Ifz case
IfzKnown == {"eq", "z", "ne", "nz", "gt", "ge", "lt", "le"}
IfzJump(cond, val) ==
    CASE cond \in {"eq", "z"} -> val = 0
      [] cond \in {"ne", "nz"} -> val # 0
      [] cond = "gt" -> val > 0
      [] cond = "ge" -> val >= 0
      [] cond = "lt" -> val < 0
      [] OTHER -> val <= 0

\* case jvm.Ifz
StepIfz(st, f, opr, c) ==
    IF ~Need(f, 1) THEN Fault(st, c)
    ELSE LET v == Peek(f, 0)
             g == PopN(f, 1)
         IN  IF ~IsIntPayload(v) THEN Fault(st, c)
             ELSE IF opr.c \notin IfzKnown THEN Fault(st, c)
             ELSE Cont(SetTop(st, IF IfzJump(opr.c, v.n)
                                  THEN [g EXCEPT !.pc = opr.i] ELSE Adv(g)), c)

\* the value of ok in the If case for a comparator other than "is"
IfOk(cond, i1, i2) ==
    CASE cond = "gt" -> i1 > i2
      [] cond = "ge" -> i1 >= i2
      [] cond = "lt" -> i1 < i2
      [] cond = "le" -> i1 <= i2
      [] cond = "eq" -> i1 = i2
      [] cond = "ne" -> i1 # i2
      [] OTHER -> FALSE

\* the reference-identity comparison of the If case
IsSame(v1, v2) == v1.t = v2.t /\ PayloadEq(v1, v2)

\* case jvm.If
StepIf(st, f, opr, c) ==
    IF ~Need(f, 2) THEN Fault(st, c)
    ELSE LET v2 == Peek(f, 0)
             v1 == Peek(f, 1)
             g == PopN(f, 2)
             jump(ok) == SetTop(st, IF ok THEN [g EXCEPT !.pc = opr.i] ELSE Adv(g))
         IN  IF opr.c = "is" THEN Cont(jump(IsSame(v1, v2)), c)
             ELSE IF ~ToIntOk(v1) \/ ~ToIntOk(v2) THEN Fault(st, c)
             ELSE LET i1 == ToInt(v1)
                      i2 == ToInt(v2)
                      c1 == IF opr.c \in {"eq", "ne"} /\ c.on
                            THEN LogInt32Cmp(c, f.pc, i1, i2) ELSE c
                  IN  IF ~c1.ok THEN Fault(st, c1)
                      ELSE Cont(jump(IfOk(opr.c, i1, i2)), c1)

\* case jvm.Goto
StepGoto(st, f, opr, c) == Cont(SetTop(st, [f EXCEPT !.pc = opr.i]), c)

\* case jvm.Get(static=True)
StepGet(st, f, opr, c) == Cont(SetTop(st, Adv(PushF(f, IntV(0)))), c)

\* case jvm.Dup
StepDup(st, f, opr, c) ==
    IF ~Need(f, 1) THEN Fault(st, c)
    ELSE Cont(SetTop(st, Adv(PushF(f, Peek(f, 0)))), c)

\* case jvm.New
StepNew(st, f, opr, c) ==
    IF opr.cls = JString
    THEN LET a == AllocStringObject(st, <<>>)
         IN  Cont(SetTop(a.st, Adv(PushF(f, RefV(a.ref)))), c)
    ELSE Cont(SetTop(st, Adv(PushF(f, IntV(0)))), c)

\* a Throw that takes every thrown value for an assertion error
StepThrowAssertion(st, f, opr, c) ==
    IF ~Need(f, 1) THEN Fault(st, c)
    ELSE Outcome(SetTop(st, PopN(f, 1)), "assertion error", c)

\* case jvm.Throw
StepThrow(st, f, opr, c) ==
    IF ~Need(f, 1) THEN Fault(st, c)
    ELSE IF Peek(f, 0).k = "none"
         THEN Outcome(SetTop(st, PopN(f, 1)), "null pointer", c)
         ELSE Outcome(SetTop(st, PopN(f, 1)), "assertion error", c)

\* "null", what concat appends for a null argument
NullText == <<110, 117, 108, 108>>

\* case jvm.InvokeSpecial
StepInvokeSpecial(st, f, opr, c) ==
    IF opr.cls = JString /\ opr.name = "<init>"
    THEN CASE opr.desc = "(Ljava/lang/String;)" ->
                IF ~Need(f, 2) THEN Fault(st, c)
                ELSE LET arg == Peek(f, 0)
                         this == Peek(f, 1)
                         g == GetString(st, arg)
                         s_arg == IF g.s = NoneStr THEN <<>> ELSE g.s
                     IN  IF ~g.ok \/ ~IsIntPayload(this) THEN Fault(st, c)
                         ELSE Cont(SetTop([st EXCEPT !.heap = Put(@, this.n, s_arg)],
                                          Adv(PopN(f, 2))), c)
           [] opr.desc = "()" ->
                IF ~Need(f, 1) THEN Fault(st, c)
                ELSE LET this == Peek(f, 0)
                     IN  IF ~IsIntPayload(this) THEN Fault(st, c)
                         ELSE Cont(SetTop([st EXCEPT !.heap = Put(@, this.n, <<>>)],
                                          Adv(PopN(f, 1))), c)
           [] opr.desc = "([C)" ->
                IF ~Need(f, 2) THEN Fault(st, c)
                ELSE LET arg == Peek(f, 0)
                         this == Peek(f, 1)
                         s_arg == IF arg.n \in DOMAIN st.heap THEN st.heap[arg.n] ELSE <<>>
                     IN  IF arg.t # "ref" \/ ~IsIntPayload(arg) \/ ~IsIntPayload(this)
                         THEN Fault(st, c)
                         ELSE Cont(SetTop([st EXCEPT !.heap = Put(@, this.n, s_arg)],
                                          Adv(PopN(f, 2))), c)
           [] OTHER -> Fault(st, c)
    ELSE Cont(SetTop(st, Adv(f)), c)

\* case "length" of the InvokeVirtual case
StepLength(st, f, opr, c) ==
    IF ~Need(f, 1) THEN Fault(st, c)
    ELSE LET recv == Peek(f, 0)
             g == GetString(st, recv)
         IN  IF recv.k = "none" THEN Outcome(SetTop(st, PopN(f, 1)), "null pointer", c)
             ELSE IF ~g.ok THEN Fault(st, c)
             ELSE Cont(SetTop(st, Adv(PushF(PopN(f, 1), IntV(Len(g.s))))), c)

\* case "concat"
StepConcat(st, f, opr, c) ==
    IF ~Need(f, 2) THEN Fault(st, c)
    ELSE LET arg == Peek(f, 0)
             recv == Peek(f, 1)
             gr == GetString(st, recv)
             ga == GetString(st, arg)
             s_arg == IF arg.k = "none" THEN NullText ELSE ga.s
             a == AllocStringObject(st, gr.s \o s_arg)
         IN  IF recv.k = "none" THEN Outcome(SetTop(st, PopN(f, 2)), "null pointer", c)
             ELSE IF ~gr.ok \/ ~ga.ok THEN Fault(st, c)
             ELSE Cont(SetTop(a.st, Adv(PushF(PopN(f, 2), RefV(a.ref)))), c)

\* cases "equals" (case_sensitive) and "equalsIgnoreCase"
StepEquals(st, f, opr, c, case_sensitive) ==
    IF ~Need(f, 2) THEN Fault(st, c)
    ELSE LET other == Peek(f, 0)
             recv == Peek(f, 1)
             gr == GetString(st, recv)
             go == GetString(st, other)
             is_equal == IF gr.s = NoneStr \/ go.s = NoneStr THEN FALSE
                         ELSE IF case_sensitive THEN gr.s = go.s
                         ELSE Lower(gr.s) = Lower(go.s)
             c1 == IF c.on THEN LogStrCmp(c, f.pc, gr.s, go.s, case_sensitive) ELSE c
         IN  IF ~gr.ok \/ ~go.ok THEN Fault(st, c)
             ELSE IF ~c1.ok THEN Fault(st, c1)
             ELSE Cont(SetTop(st, Adv(PushF(PopN(f, 2), BoolV(is_equal)))), c1)

\* the index test of the charAt case
CharAtOutOfBounds(s, i) == i < 0 \/ i >= Len(s)

\* a charAt that answers a null receiver as Java does
StepCharAtNullPointer(st, f, opr, c) ==
    IF ~Need(f, 2) THEN Fault(st, c)
    ELSE LET index == Peek(f, 0)
             recv == Peek(f, 1)
             g == GetString(st, recv)
             s == g.s
             i == index.n
             out(label) == Outcome(SetTop(st, PopN(f, 2)), label, c)
         IN  IF index.t # "int" THEN Fault(st, c)
             ELSE IF recv.k = "none" THEN out("null pointer")
             ELSE IF ~g.ok THEN Fault(st, c)
             ELSE IF Len(s) = 0 THEN out("assertion error")
             ELSE IF CharAtOutOfBounds(s, i) THEN out("out of bounds")
             ELSE Cont(SetTop(st, Adv(PushF(PopN(f, 2), CharV(s[i + 1])))), c)

\* case "charAt"
StepCharAt(st, f, opr, c) ==
    IF ~Need(f, 2) THEN Fault(st, c)
    ELSE LET index == Peek(f, 0)
             recv == Peek(f, 1)
             g == GetString(st, recv)
             s == g.s
             i == index.n
             out(label) == Outcome(SetTop(st, PopN(f, 2)), label, c)
         IN  IF index.t # "int" THEN Fault(st, c)
             ELSE IF recv.k = "none" THEN out("out of bounds")
             ELSE IF ~g.ok THEN Fault(st, c)
             ELSE IF Len(s) = 0 THEN out("assertion error")
             ELSE IF CharAtOutOfBounds(s, i) THEN out("out of bounds")
             ELSE Cont(SetTop(st, Adv(PushF(PopN(f, 2), CharV(s[i + 1])))), c)

\* the index test of the substring case without j < i
SubstringOutOfBoundsNoOrder(s, i, j) == i < 0 \/ j > Len(s)

\* the index test of the substring case
SubstringOutOfBounds(s, i, j) == i < 0 \/ j < i \/ j > Len(s)

\* case "substring"
StepSubstring(st, f, opr, c) ==
    IF ~Need(f, 3) THEN Fault(st, c)
    ELSE LET end == Peek(f, 0)
             start == Peek(f, 1)
             recv == Peek(f, 2)
             g == GetString(st, recv)
             s == g.s
             i == start.n
             j == end.n
             a == AllocStringObject(st, Slice(s, i, j))
         IN  IF start.t # "int" \/ end.t # "int" THEN Fault(st, c)
             ELSE IF recv.k = "none"
                  THEN Outcome(SetTop(st, PopN(f, 3)), "out of bounds", c)
             ELSE IF ~g.ok THEN Fault(st, c)
             ELSE IF SubstringOutOfBounds(s, i, j)
                  THEN Outcome(SetTop(st, PopN(f, 3)), "out of bounds", c)
             ELSE Cont(SetTop(a.st, Adv(PushF(PopN(f, 3), RefV(a.ref)))), c)

\* case jvm.InvokeVirtual
StepInvokeVirtual(st, f, opr, c) ==
    IF opr.cls = JString
    THEN CASE opr.name = "length" -> StepLength(st, f, opr, c)
           [] opr.name = "concat" -> StepConcat(st, f, opr, c)
           [] opr.name = "equals" -> StepEquals(st, f, opr, c, TRUE)
           [] opr.name = "equalsIgnoreCase" -> StepEquals(st, f, opr, c, FALSE)
           [] opr.name = "charAt" -> StepCharAt(st, f, opr, c)
           [] opr.name = "substring" -> StepSubstring(st, f, opr, c)
           [] OTHER -> Fault(st, c)
    ELSE Cont(SetTop(st, Adv(f)), c)

\* an InvokeStatic that enters the callee: a frame is pushed
StepInvokeStaticCall(st, f, opr, c) ==
    Cont([st EXCEPT !.frames = Append(@, NewFrame(EmptyFn))], c)

\* case jvm.InvokeStatic
StepInvokeStatic(st, f, opr, c) == Cont(SetTop(st, Adv(f)), c)

\* a default case that skips the instruction
StepDefaultSkip(st, f, opr, c) == Cont(SetTop(st, Adv(f)), c)

\* case a: raise NotImplementedError
StepDefault(st, f, opr, c) == Fault(st, c)

\* Interpreter.step on the instruction opr = self.bc[frame.pc]
Step(st, opr, c0) ==
    LET f == TopFrame(st)
        c == IF c0.on THEN HitPc(c0, f.pc) ELSE c0
    IN  CASE opr.op = "push" -> StepPush(st, f, opr, c)
          [] opr.op = "incr" -> StepIncr(st, f, opr, c)
          [] opr.op = "pop" -> StepPop(st, f, opr, c)
          [] opr.op = "load" -> StepLoad(st, f, opr, c)
          [] opr.op = "store" -> StepStore(st, f, opr, c)
          [] opr.op = "binary" /\ opr.c = "div" -> StepDiv(st, f, opr, c)
          [] opr.op = "return" /\ opr.c = "int" -> StepReturnInt(st, f, opr, c)
          [] opr.op = "ifz" -> StepIfz(st, f, opr, c)
          [] opr.op = "if" -> StepIf(st, f, opr, c)
          [] opr.op = "goto" -> StepGoto(st, f, opr, c)
          [] opr.op = "get" -> StepGet(st, f, opr, c)
          [] opr.op = "dup" -> StepDup(st, f, opr, c)
          [] opr.op = "new" -> StepNew(st, f, opr, c)
          [] opr.op = "invokespecial" -> StepInvokeSpecial(st, f, opr, c)
          [] opr.op = "invokevirtual" -> StepInvokeVirtual(st, f, opr, c)
          [] opr.op = "invokestatic" -> StepInvokeStatic(st, f, opr, c)
          [] opr.op = "throw" -> StepThrow(st, f, opr, c)
          [] opr.op = "return" /\ opr.c = "void" -> StepReturnVoid(st, f, opr, c)
          [] opr.op = "binary" /\ opr.c \in {"mul", "add", "sub"} ->
                StepBinInt(st, f, opr, c)
          [] OTHER -> StepDefault(st, f, opr, c)

----------------------------------------------------------------------------
(* Interpreter.run_method, one step of its loop at a time *)

\* the labels run_method can return
Outcomes == {"ok", "divide by zero", "null pointer", "out of bounds",
             "assertion error", "*"}

\* no Fuzzer object: the interpreter is run on its own
NoFuzzer == [pc |-> "none"]

\* locals as run_method fills them from method_args
ArgLocals(args) == [i \in 0..(Len(args) - 1) |-> args[i + 1]]

NoLast == [opr |-> NoInstr, pre |-> NewState(NewFrame(EmptyFn)), precov |-> NoCoverage]

\* the state run_method builds before its loop, for the arguments args, the
\* budget m, and an interpreter made with coverage c, on a method whose
\* offsets have the hashes h
InitRun(args, m, c, h) ==
    /\ state = NewState(NewFrame(ArgLocals(args)))
    /\ status = "run"
    /\ steps = 0
    /\ max_steps = m
    /\ cov = c
    /\ hseed = h
    /\ bc = EmptyFn
    /\ last = NoLast
    /\ fz = NoFuzzer

\* the hashes of the model.  On a map of 8 counters the first puts the
\* offsets 0..5 on the locations 3, 4, 6, 7, 0, 2 and the second on
\* 0, 1, 2, 4, 5, 7: a comparison at offset 2 has its auxiliary locations
\* past the end of the map under the first and inside it under the second
HashSeeds == {HashesOfF, HashesOfM39}

\* the interpreter with coverage None, or with a Coverage under one of the hashes
CoverageChoices == {<<NoCoverage, HashesOfM39>>} \cup {<<NewCoverage, h>> : h \in HashSeeds}

\* what a result of step makes of run_method's loop
StatusOf(r) ==
    IF r.kind = "state" THEN "run" ELSE IF r.kind = "outcome" THEN r.out ELSE "fault"

\* a loop that makes one step more than the budget
WithinBudgetOneMore == steps <= max_steps

\* for _ in range(max_steps): another iteration is left
WithinBudget == steps < max_steps

\* one iteration of run_method's loop, on a method whose instruction at the
\* current offset is opr (the method is fixed as the run reads it)
Exec(opr) ==
    /\ status = "run"
    /\ WithinBudget
    /\ LET pc == TopFrame(state).pc
           r == Step(state, opr, cov)
       IN  /\ pc \in DOMAIN bc => bc[pc] = opr
           /\ bc' = Put(bc, pc, opr)
           /\ state' = r.st
           /\ cov' = r.cov
           /\ status' = StatusOf(r)
    /\ steps' = steps + 1
    /\ last' = [opr |-> opr, pre |-> state, precov |-> cov]
    /\ UNCHANGED <<max_steps, hseed, fz>>

\* the loop ends with the budget used up: return "*"
Budget ==
    /\ status = "run"
    /\ steps = max_steps
    /\ status' = "*"
    /\ last' = [opr |-> NoInstr, pre |-> state, precov |-> cov]
    /\ UNCHANGED <<state, steps, max_steps, cov, hseed, bc, fz>>

\* The methods of the model are bytecode the JVM's verifier accepts: an
\* instruction is met only with its operands on the stack, each of its type.
\* The k-th value from the top (0 the top) is an int, or a String reference.
Operands(n) == status = "run" /\ Need(TopFrame(state), n)
IsInt(k) == Peek(TopFrame(state), k).t = "int"
IsStr(k) == Peek(TopFrame(state), k).t \in {"ref", "string"}

----------------------------------------------------------------------------
(* Integer division: methods made of integer pushes, Div and Return *)

\* the integers a method pushes
DivInts == {-7, -2, 0, 2, 7}
\* the step budget of these runs
DivSteps == 4

DoPushInt == \E n \in DivInts : Exec(Push(IntV(n)))
DoDiv == Operands(2) /\ IsInt(0) /\ IsInt(1) /\ Exec(Binary("div"))
DoReturnInt == Operands(1) /\ IsInt(0) /\ Exec(Return("int"))

InitDiv == \E cc \in CoverageChoices : InitRun(<<>>, DivSteps, cc[1], cc[2])
NextDiv == DoPushInt \/ DoDiv \/ DoReturnInt \/ Budget
SpecDiv == InitDiv /\ [][NextDiv]_vars

\* the last step was a Div of a by b
DivOf(a, b) ==
    /\ last.opr = Binary("div")
    /\ Need(TopFrame(last.pre), 2)
    /\ Peek(TopFrame(last.pre), 1) = IntV(a)
    /\ Peek(TopFrame(last.pre), 0) = IntV(b)

\* C1: a Div of a by b ends the run with 'divide by zero' when b = 0 and
\* otherwise pushes the quotient truncated toward zero and advances the pc
\* by one; an integer return with no caller frame ends the run with success
C1_DivTruncates ==
    /\ \A a \in DivInts, b \in DivInts :
          DivOf(a, b) =>
             IF b = 0 THEN status = "divide by zero"
             ELSE /\ status = "run"
                  /\ TopFrame(state).pc = TopFrame(last.pre).pc + 1
                  /\ TopFrame(state).stack =
                        Append(PopN(TopFrame(last.pre), 2).stack, IntV(TruncDiv(a, b)))
    /\ (last.opr = Return("int") /\ Need(TopFrame(last.pre), 1)) => status = "ok"

----------------------------------------------------------------------------
(* String literals and constructed strings *)

\* the literal texts a method pushes: "a" and "b"
Literals == {<<97>>, <<98>>}
\* the step budget of these runs
InternSteps == 6

Range(f) == {f[x] : x \in DOMAIN f}

DoPushLiteral == \E s \in Literals : Exec(Push(StrLitV(s)))
DoNewString == Exec(New(JString))
DoDup == Operands(1) /\ Exec(Dup)
\* the receiver of <init> is an object made by New, never a literal
DoInitString ==
    /\ Operands(2) /\ IsStr(0) /\ Peek(TopFrame(state), 1).t = "ref"
    /\ Peek(TopFrame(state), 1).n \notin Range(state.string_pool)
    /\ Exec(InvokeSpecial(JString, "<init>", "(Ljava/lang/String;)"))
DoIfIs == Operands(2) /\ IsStr(0) /\ IsStr(1) /\ Exec(If("is", MaxPc))
DoEquals == Operands(2) /\ IsStr(0) /\ IsStr(1) /\ Exec(InvokeVirtual(JString, "equals"))

InitIntern == \E cc \in CoverageChoices : InitRun(<<>>, InternSteps, cc[1], cc[2])
NextIntern ==
    DoPushLiteral \/ DoNewString \/ DoDup \/ DoInitString \/ DoIfIs \/ DoEquals \/ Budget
SpecIntern == InitIntern /\ [][NextIntern]_vars

\* the last step pushed the literal text s
PushedLiteral(s) == last.opr = Push(StrLitV(s))

\* C2: pushing a literal whose text was pushed earlier in the run yields the
\* reference of the earlier push, which the interning table keeps, so the
\* two values are the same under the reference-identity comparison
C2_LiteralInterned ==
    \A s \in Literals :
        (PushedLiteral(s) /\ s \in DOMAIN last.pre.string_pool) =>
            /\ status = "run"
            /\ Peek(TopFrame(state), 0) = RefV(last.pre.string_pool[s])
            /\ IsSame(Peek(TopFrame(state), 0), RefV(state.string_pool[s]))
            /\ state.heap = last.pre.heap
            /\ state.next_ref = last.pre.next_ref

\* a literal was pushed a second time, after a constructor allocation
C2_Witness ==
    \E s \in Literals :
        /\ PushedLiteral(s)
        /\ s \in DOMAIN last.pre.string_pool
        /\ last.pre.next_ref > Cardinality(DOMAIN last.pre.string_pool)

\* v is a reference to a heap string that is not in the interning table:
\* one made by New and the constructor
Constructed(st, v) ==
    v.t = "ref" /\ v.k = "int" /\ v.n \in DOMAIN st.heap /\ v.n \notin Range(st.string_pool)

\* v is the reference of an interned literal
Interned(st, v) == v.t = "ref" /\ v.k = "int" /\ v.n \in Range(st.string_pool)

\* the two operands of the last step are a constructed string and an interned
\* literal of the same content, in either order
ConstructedAndLiteral ==
    LET f == TopFrame(last.pre)
        v1 == Peek(f, 1)
        v2 == Peek(f, 0)
    IN  /\ Need(f, 2)
        /\ \/ Constructed(last.pre, v1) /\ Interned(last.pre, v2)
           \/ Interned(last.pre, v1) /\ Constructed(last.pre, v2)
        /\ last.pre.heap[v1.n] = last.pre.heap[v2.n]

\* C3: New gives a String a reference that was neither a heap key nor a
\* value of the interning table; the reference-identity comparison of a
\* constructed string with a literal of the same content is false (the
\* branch is not taken), and equals between them pushes true
C3_ConstructedIsFresh ==
    /\ last.opr = New(JString) =>
          /\ status = "run"
          /\ Peek(TopFrame(state), 0).n \notin DOMAIN last.pre.heap
          /\ Peek(TopFrame(state), 0).n \notin Range(last.pre.string_pool)
    /\ (last.opr = If("is", MaxPc) /\ ConstructedAndLiteral) =>
          /\ status = "run"
          /\ TopFrame(state).pc = TopFrame(last.pre).pc + 1
    /\ (last.opr = InvokeVirtual(JString, "equals") /\ ConstructedAndLiteral) =>
          /\ status = "run"
          /\ Peek(TopFrame(state), 0) = BoolV(TRUE)

----------------------------------------------------------------------------
(* charAt and substring *)

\* the contents of the receivers: "", "a", "ab"
Receivers == {<<>>, <<97>>, <<97, 98>>}
\* the indices a method pushes
Indices == -1..3
\* the step budget of these runs
SubSteps == 4

DoLoadReceiver == Exec(Load(0))
\* a literal with the text of the argument: the same receiver, on the heap
DoPushReceiver == Exec(Push(StrLitV(TopFrame(state).locals[0].s)))
DoPushIndex == \E i \in Indices : Exec(Push(IntV(i)))
DoCharAt == Operands(2) /\ IsInt(0) /\ IsStr(1) /\ Exec(InvokeVirtual(JString, "charAt"))
DoSubstring ==
    /\ Operands(3) /\ IsInt(0) /\ IsInt(1) /\ IsStr(2)
    /\ Exec(InvokeVirtual(JString, "substring"))

\* the receiver is the method's String argument or a literal it pushes
InitSub ==
    \E c \in {NoCoverage, NewCoverage}, s \in Receivers :
        InitRun(<<StringV(s)>>, SubSteps, c, HashesOfM39)
NextSub ==
    DoLoadReceiver \/ DoPushReceiver \/ DoPushIndex \/ DoCharAt \/ DoSubstring \/ Budget
SpecSub == InitSub /\ [][NextSub]_vars

\* the last step was substring on a receiver of content s with begin i and end j
SubstringOf(s, i, j) ==
    LET f == TopFrame(last.pre)
    IN  /\ last.opr = InvokeVirtual(JString, "substring")
        /\ Need(f, 3)
        /\ Peek(f, 2).k # "none"
        /\ GetString(last.pre, Peek(f, 2)) = [ok |-> TRUE, s |-> s]
        /\ Peek(f, 1) = IntV(i)
        /\ Peek(f, 0) = IntV(j)

\* C4: substring ends the run with 'out of bounds' if and only if i < 0 or
\* j < i or j > length(s); otherwise it pushes a reference to a newly
\* allocated heap string of length j - i holding s[i..j), and the run
\* continues at pc + 1
C4_Substring ==
    \A s \in Receivers, i \in Indices, j \in Indices :
        SubstringOf(s, i, j) =>
            IF i < 0 \/ j < i \/ j > Len(s)
            THEN status = "out of bounds"
            ELSE /\ status = "run"
                 /\ TopFrame(state).pc = TopFrame(last.pre).pc + 1
                 /\ Len(TopFrame(state).stack) = Len(TopFrame(last.pre).stack) - 2
                 /\ LET r == Peek(TopFrame(state), 0)
                    IN  /\ r.t = "ref" /\ r.k = "int"
                        /\ r.n \notin DOMAIN last.pre.heap
                        /\ r.n \in DOMAIN state.heap
                        /\ Len(state.heap[r.n]) = j - i
                        /\ \A k \in 1..(j - i) : state.heap[r.n][k] = s[i + k]

\* substring took a slice that is neither empty nor the whole receiver
C4_Witness ==
    /\ status = "run"
    /\ \E s \in Receivers, i \in Indices, j \in Indices :
          SubstringOf(s, i, j) /\ i >= 0 /\ i < j /\ j <= Len(s) /\ j - i < Len(s)

\* the last step was charAt on a receiver of content s with index i
CharAtOf(s, i) ==
    LET f == TopFrame(last.pre)
    IN  /\ last.opr = InvokeVirtual(JString, "charAt")
        /\ Need(f, 2)
        /\ Peek(f, 1).k # "none"
        /\ GetString(last.pre, Peek(f, 1)) = [ok |-> TRUE, s |-> s]
        /\ Peek(f, 0) = IntV(i)

\* C5: charAt ends the run with 'out of bounds' if and only if i < 0 or
\* i >= length(s), the empty string included; otherwise it pushes the
\* character s[i] and the run continues at pc + 1
C5_CharAt ==
    \A s \in Receivers, i \in Indices :
        CharAtOf(s, i) =>
            IF i < 0 \/ i >= Len(s)
            THEN status = "out of bounds"
            ELSE /\ status = "run"
                 /\ TopFrame(state).pc = TopFrame(last.pre).pc + 1
                 /\ TopFrame(state).stack =
                       Append(PopN(TopFrame(last.pre), 2).stack, CharV(s[i + 1]))

----------------------------------------------------------------------------
(* run_method on any method: every kind of end of a run *)

DoPushZero == Exec(Push(IntV(0)))
DoPushNull == Exec(Push(NullV))
DoLoadArg == Exec(Load(0))
\* New of a class other than String; step pushes the int 0 for the object
DoNewObject == Exec(New("java/lang/AssertionError"))
DoThrow == Operands(1) /\ Exec(Throw)
DoReturnVoid == Exec(Return("void"))
DoGoto == \E t \in 0..MaxPc : Exec(Goto(t))
DoUnmodeled == Exec(Unmodeled)

\* any budget from 0 to MaxSteps; the argument is the String "a"
InitRunMethod ==
    \E c \in {NoCoverage, NewCoverage}, m \in 0..MaxSteps :
        InitRun(<<StringV(<<97>>)>>, m, c, HashesOfM39)
NextRunMethod ==
    \/ DoPushZero \/ DoPushNull \/ DoLoadArg \/ DoNewObject \/ DoDiv \/ DoCharAt \/ DoThrow
    \/ DoReturnVoid \/ DoGoto \/ DoUnmodeled \/ Budget
SpecRunMethod == InitRunMethod /\ [][NextRunMethod]_vars

\* C6 as claimed: run_method makes at most max_steps calls of step and ends
\* only by returning one label of the closed set, '*' only with the budget
\* used up
C6_AlwaysReturnsLabel ==
    /\ steps <= max_steps
    /\ status # "run" => status \in Outcomes
    /\ status = "*" => steps = max_steps

\* C6, amended: run_method makes at most max_steps calls of step; it ends by
\* returning one label of the closed set or by the exception a step raised;
\* no step is made after a step returned an Outcome or raised; and it
\* returns '*' exactly when max_steps steps each returned a successor state
C6_RunMethod ==
    /\ [](/\ steps <= max_steps
          /\ status \in Outcomes \cup {"run", "fault"}
          /\ status = "*" => steps = max_steps)
    /\ [][/\ status = "run"
          /\ (steps = max_steps) <=> (status' = "*")
          /\ steps < max_steps => steps' = steps + 1]_vars

\* a run of a method that loops ended with the budget used up
C6_Witness == status = "*" /\ steps = max_steps /\ max_steps > 2

----------------------------------------------------------------------------
(* The fuzzer (fuzzer.py) *)

\* stands for Fuzzer.STAGNANT_ITER_LIMIT (350_000), scaled down
STAGNANT_ITER_LIMIT == 2
\* stands for Fuzzer.STAGNANT_CHANGE_STRATEGY (100_000), scaled down
STAGNANT_CHANGE_STRATEGY == 0
\* the step budget of a fuzzer's runs (Fuzzer.max_steps)
FuzzSteps == 7
\* the iteration caps of the sessions (max_iters)
IterCaps == {2, 4}
\* a child is made by 1..MaxMutations mutations (the code draws from 1..8)
MaxMutations == 1

\* the max_corpus_size the sessions are made with (the default is 128)
MaxCorpusSize == 2

\* Testcase(input_values, coverage_score, depth)
Testcase(input_values, coverage_score, depth) ==
    [input_values |-> input_values, coverage_score |-> coverage_score, depth |-> depth]

\* the thresholds of Fuzzer.bucket
Thresholds == <<1, 2, 4, 8, 16, 32, 128>>

\* a bucket function that compares with < where the code compares with <=
BucketStrict(x) ==
    IF x <= 0 THEN 0
    ELSE IF \E idx \in 1..Len(Thresholds) : x < Thresholds[idx]
         THEN CHOOSE idx \in 1..Len(Thresholds) :
                 x < Thresholds[idx] /\ \A j \in 1..(idx - 1) : x >= Thresholds[j]
         ELSE Len(Thresholds) + 1

\* Fuzzer.bucket
Bucket(x) ==
    IF x <= 0 THEN 0
    ELSE IF \E idx \in 1..Len(Thresholds) : x <= Thresholds[idx]
         THEN CHOOSE idx \in 1..Len(Thresholds) :
                 x <= Thresholds[idx] /\ \A j \in 1..(idx - 1) : x > Thresholds[j]
         ELSE Len(Thresholds) + 1

\* a merge that copies every count that differs, zero counts included
InformativeDifferent(g, cnt) == cnt # g

\* is_interesting_run at one location: the local count cnt is not skipped and
\* is a new edge or falls in a higher bucket than the global count g
Informative(g, cnt) == cnt # 0 /\ (g = 0 \/ Bucket(cnt) > Bucket(g))

\* a merge that copies every non-zero local count, informative or not
IsInterestingRunCopyAll(local, global_map) ==
    LET inf(i) == Informative(global_map.bitmap[i], local.bitmap[i]) IN
    [interesting |-> \E i \in DOMAIN local.bitmap : inf(i),
     global_map |-> [global_map EXCEPT !.bitmap =
                        [i \in DOMAIN @ |-> IF local.bitmap[i] # 0
                                             THEN local.bitmap[i] ELSE @[i]]]]

\* Fuzzer.is_interesting_run: what it returns and what it makes of global_map
IsInterestingRun(local, global_map) ==
    LET inf(i) == Informative(global_map.bitmap[i], local.bitmap[i]) IN
    [interesting |-> \E i \in DOMAIN local.bitmap : inf(i),
     global_map |-> [global_map EXCEPT !.bitmap =
                        [i \in DOMAIN @ |-> IF inf(i) THEN local.bitmap[i] ELSE @[i]]]]

\* hash(tuple(local_coverage.bitmap)).  Only the equality of two such
\* hashes is used, equal maps have equal hashes, and Python's 64-bit hash
\* tells the maps of these sessions apart: the hash is held as the tuple it
\* is the hash of
HashTuple(bitmap) == [i \in 1..Cardinality(DOMAIN bitmap) |-> bitmap[i - 1]]

\* the crash signature of a run
Signature(result, local) == <<result, HashTuple(local.bitmap)>>

\* a test that finds no signature seen
SeenSignatureNever(sig, signatures) == FALSE

\* sig in self._crash_signatures
SeenSignature(sig, signatures) == sig \in signatures

\* a test that takes every outcome but the budget's for a crash
IsCrashButBudget(result) == result \notin {"ok", "*"}

\* result != "ok"
IsCrash(result) == result # "ok"

\* a loop that goes on until the counter is past the limit
StagnationBreakPast(stagnant_iters) == stagnant_iters > STAGNANT_ITER_LIMIT

\* self.stagnant_iters >= Fuzzer.STAGNANT_ITER_LIMIT
StagnationBreak(stagnant_iters) == stagnant_iters >= STAGNANT_ITER_LIMIT

\* the values generate_int draws in the model (the code draws from -100..100)
SeedInts == {0, 2}

\* Fuzzer.generate_testcase: the testcases it can return for the parameters
GenerateTestcase(params) ==
    IF Len(params) = 0 THEN {Testcase(<<>>, 0, 0)}
    ELSE {Testcase(<<IntV(n)>>, 0, 0) : n \in SeedInts}

\* sorted(tc.coverage_score for tc in corpus)[max(1, len(corpus) // 5) - 1]
ScoreThreshold(corpus) ==
    LET k == IF Len(corpus) \div 5 > 1 THEN Len(corpus) \div 5 ELSE 1
        below(v) == Cardinality({i \in 1..Len(corpus) : corpus[i].coverage_score < v})
        upto(v) == Cardinality({i \in 1..Len(corpus) : corpus[i].coverage_score <= v})
    IN  CHOOSE v \in {corpus[i].coverage_score : i \in 1..Len(corpus)} :
            below(v) < k /\ upto(v) >= k

\* Fuzzer.pick_parent_uniform: the testcases it can return
PickParentUniform(corpus, params) ==
    IF Len(corpus) = 0 THEN GenerateTestcase(params)
    ELSE LET filtered == {corpus[i] : i \in {j \in 1..Len(corpus) :
                              corpus[j].coverage_score < ScoreThreshold(corpus)}}
         IN  IF filtered = {} THEN Range(corpus) ELSE filtered

\* best_candidates of pick_parent_exploit, for a corpus that is not empty
BestCandidates(corpus) ==
    {tc \in Range(corpus) : tc.coverage_score >= ScoreThreshold(corpus)}

\* Fuzzer.pick_parent_exploit: the testcases it can return
PickParentExploit(corpus, params) ==
    IF Len(corpus) = 0 THEN GenerateTestcase(params)
    ELSE LET best == BestCandidates(corpus)
             others == {tc \in Range(corpus) : tc.coverage_score < ScoreThreshold(corpus)}
         IN  IF Len(corpus) = 1 THEN best ELSE best \cup others

\* a test that exploits only below the threshold
ScheduleModeStrict(stagnant_iters) ==
    IF stagnant_iters < STAGNANT_CHANGE_STRATEGY THEN "exploit" ELSE "uniform"

\* the test of schedule_testcase: which of the two pickers is called
ScheduleMode(stagnant_iters) ==
    IF stagnant_iters <= STAGNANT_CHANGE_STRATEGY THEN "exploit" ELSE "uniform"

\* Fuzzer.schedule_testcase: the parents it can return
ScheduleTestcase(corpus, params, stagnant_iters) ==
    IF ScheduleMode(stagnant_iters) = "exploit"
    THEN PickParentExploit(corpus, params)
    ELSE PickParentUniform(corpus, params)

\* a method as its opcodes from offset 0
Program(opcodes) == [i \in 0..(Len(opcodes) - 1) |-> opcodes[i + 1]]
\* void f(int x) { if (x == 424242) throw new AssertionError(); }
\* 424242 = 0x067932
MagicNumber == 6 * 65536 + 121 * 256 + 50
TargetMagic ==
    Program(<<Load(0), Push(IntV(MagicNumber)), If("ne", 5),
              New("java/lang/AssertionError"), Throw, Return("void")>>)
\* the three low bytes of the constant, lowest first (the top byte is 0)
MagicBytes == {ByteOf(MagicNumber, b) : b \in 0..2}
\* the inputs of the runs on the magic-number target: each of the three low
\* bytes is 0 or the byte of the constant, or the value is the seed 2
MagicInts ==
    {2} \cup {b2 * 65536 + b1 * 256 + b0 :
                 b2 \in {0, ByteOf(MagicNumber, 2)},
                 b1 \in {0, ByteOf(MagicNumber, 1)},
                 b0 \in {0, ByteOf(MagicNumber, 0)}}

\* the choices of mutate_int
MutDeltas == {-10, -1, 1, 10, 42, -42}
\* the bytes mutate_int draws in the model (the code draws from 0..255), and
\* the shifts as byte indices, shift = 8 * b (the code draws from 0, 8, 16, 24)
\* for the magic-number target the bytes of its constant and the three low
\* byte positions
MutBytes == IF bc = TargetMagic THEN {0} \cup MagicBytes ELSE {0, 1, 255}
MutShifts == IF bc = TargetMagic THEN {0, 1, 2} ELSE {0, 1}

\* (val & ~(0xFF << shift)) | (byte << shift), shift = 8 * b
ReplaceByte(val, byte, b) == val - ByteOf(val, b) * (256 ^ b) + byte * (256 ^ b)

\* Fuzzer.mutate_int: the values it can return
MutateInt(val) ==
    {val + d : d \in MutDeltas}
    \cup {ReplaceByte(val, byte, b) : byte \in MutBytes, b \in MutShifts}
    \cup {0 - val}

\* Fuzzer.mutate_value on an int
MutateValue(v) == {IntV(n) : n \in MutateInt(v.n)}

RECURSIVE MutateVals(_, _)
\* the loop of mutate_testcase: num more mutations of new_vals
MutateVals(new_vals, num) ==
    IF num = 0 THEN {new_vals}
    ELSE UNION {UNION {MutateVals([new_vals EXCEPT ![idx] = m], num - 1) :
                          m \in MutateValue(new_vals[idx])} :
                   idx \in 1..Len(new_vals)}

\* Fuzzer.mutate_testcase: the children it can return for a parent that has
\* input values
MutateTestcase(parent) ==
    {Testcase(vals, 0, parent.depth + 1) :
        vals \in UNION {MutateVals(parent.input_values, num) : num \in 1..MaxMutations}}

\* the inputs of the runs of the model
InputInts == IF bc = TargetMagic THEN MagicInts ELSE -1..2

\* the methods fuzzed
\* int f(int x) { return 7 / x; }
TargetDivide == Program(<<Push(IntV(7)), Load(0), Binary("div"), Return("int")>>)
\* void f(int x) { while (x > 0) x--; }
TargetLoop ==
    Program(<<Load(0), Ifz("le", 4), Incr(0, -1), Goto(0), Return("void")>>)
\* void f(int x) { if (x == 2) throw new AssertionError(); }
TargetCompare ==
    Program(<<Load(0), Push(IntV(2)), If("ne", 5), New("java/lang/AssertionError"),
              Throw, Return("void")>>)
\* void f() { }
TargetNoParams == Program(<<Return("void")>>)
\* void f(int x) { if (x != 0) ...; } with an opcode step has no case for
TargetUnmodeled == Program(<<Load(0), Ifz("ne", 3), Return("void"), Unmodeled>>)

\* the targets with their parameter types
Targets ==
    {[bc |-> TargetDivide, params |-> <<"int">>],
     [bc |-> TargetLoop, params |-> <<"int">>],
     [bc |-> TargetCompare, params |-> <<"int">>],
     [bc |-> TargetUnmodeled, params |-> <<"int">>],
     [bc |-> TargetNoParams, params |-> <<>>]}

\* the Fuzzer after __init__, for a target and an iteration cap; pc is the
\* position of run: "init" before it, "top" at the head of its loop,
\* "running" inside run_method, "returned" and "raised" after it.  merged,
\* remerge and recorded are history: the local maps merged so far, whether
\* the last one had been merged before, and whether the last run was
\* appended to crashes.  mode, mode_before and parent are history too: the
\* picker schedule_testcase called in the last iteration and in the one
\* before, and the parent it returned.
NewFuzzer(params, max_iters) ==
    [pc |-> "init",
     params |-> params,
     max_iters |-> max_iters,
     max_corpus_size |-> MaxCorpusSize,
     iteration |-> 0,
     corpus |-> <<>>,
     global_coverage |-> NewCoverage,
     crashes |-> <<>>,
     crash_signatures |-> {},
     stop_requested |-> FALSE,
     stagnant_iters |-> 0,
     testcase |-> Testcase(<<>>, 0, 0),
     result |-> "",
     interesting |-> FALSE,
     ret |-> -1,
     merged |-> {},
     remerge |-> FALSE,
     recorded |-> FALSE,
     mode |-> "",
     mode_before |-> "",
     parent |-> Testcase(<<>>, 0, 0)]

\* Fuzzer(methodid, max_steps, max_iters) on a method whose offsets have the hashes h
InitFuzzer(target, m, max_iters, h) ==
    /\ state = NewState(NewFrame(EmptyFn))
    /\ status = "idle"
    /\ steps = 0
    /\ max_steps = m
    /\ cov = NewCoverage
    /\ hseed = h
    /\ bc = target.bc
    /\ last = NoLast
    /\ fz = NewFuzzer(target.params, max_iters)

\* a counter that an interesting run leaves as it is
StagnantAfterKeep(interesting, stagnant_iters) ==
    IF interesting THEN stagnant_iters ELSE stagnant_iters + 1

\* self.stagnant_iters after the run: 0 if interesting, else one more
StagnantAfter(interesting, stagnant_iters) ==
    IF interesting THEN 0 ELSE stagnant_iters + 1

\* a loop head that never sees the stop flag
StopRequestedNever(f) == FALSE

\* if self._stop_requested, at the head of an iteration
StopRequested(f) == f.stop_requested

\* run, before its loop: the seed testcase is appended to the corpus
FuzzSeed ==
    /\ fz.pc = "init"
    /\ \E first \in GenerateTestcase(fz.params) :
          fz' = [fz EXCEPT !.pc = "top", !.corpus = Append(@, first)]
    /\ UNCHANGED <<state, status, steps, max_steps, cov, hseed, bc, last>>

\* the head of an iteration: schedule a parent, derive a child, reset the
\* local map, and enter run_method; randrange(0) raises for a parent with
\* no input values
FuzzStart ==
    /\ fz.pc = "top"
    /\ fz.iteration < fz.max_iters
    /\ ~StopRequested(fz)
    /\ \E parent \in ScheduleTestcase(fz.corpus, fz.params, fz.stagnant_iters) :
          IF Len(parent.input_values) = 0
          THEN /\ fz' = [fz EXCEPT !.pc = "raised", !.iteration = @ + 1,
                                   !.mode = ScheduleMode(fz.stagnant_iters),
                                   !.mode_before = fz.mode,
                                   !.parent = parent]
               /\ UNCHANGED <<state, status, steps, cov, last>>
          ELSE \E testcase \in MutateTestcase(parent) :
                  /\ \A i \in 1..Len(testcase.input_values) :
                        testcase.input_values[i].n \in InputInts
                  /\ fz' = [fz EXCEPT !.pc = "running", !.iteration = @ + 1,
                                      !.testcase = testcase,
                                      !.mode = ScheduleMode(fz.stagnant_iters),
                                      !.mode_before = fz.mode,
                                      !.parent = parent]
                  /\ state' = NewState(NewFrame(ArgLocals(testcase.input_values)))
                  /\ status' = "run"
                  /\ steps' = 0
                  /\ cov' = Reset(cov)
                  /\ last' = NoLast
    /\ UNCHANGED <<max_steps, hseed, bc>>

\* one step of the run of the iteration
FuzzStep ==
    /\ fz.pc = "running"
    /\ status = "run"
    /\ TopFrame(state).pc \in DOMAIN bc
    /\ Exec(bc[TopFrame(state).pc])

\* the run of the iteration used its budget up
FuzzBudget == fz.pc = "running" /\ Budget

\* the rest of an iteration after run_method returned: merge the local map,
\* update the corpus and the stagnation counter, record a crash, and leave
\* the loop on stagnation
FinishRun(f, result, local_coverage) ==
    LET merge == IsInterestingRun(local_coverage, f.global_coverage)
        testcase == [f.testcase EXCEPT !.coverage_score = Score(local_coverage)]
        stagnant_iters == StagnantAfter(merge.interesting, f.stagnant_iters)
        sig == Signature(result, local_coverage)
        record == IsCrash(result) /\ ~SeenSignature(sig, f.crash_signatures)
        break == StagnationBreak(stagnant_iters)
    IN  [f EXCEPT
           !.pc = IF break THEN "returned" ELSE "top",
           !.ret = IF break THEN Score(merge.global_map) ELSE @,
           !.global_coverage = merge.global_map,
           !.testcase = testcase,
           !.result = result,
           !.interesting = merge.interesting,
           !.corpus = IF merge.interesting THEN Append(@, testcase) ELSE @,
           !.stagnant_iters = stagnant_iters,
           !.crash_signatures = IF record THEN @ \cup {sig} ELSE @,
           !.crashes = IF record THEN Append(@, testcase) ELSE @,
           !.merged = @ \cup {local_coverage.bitmap},
           !.remerge = local_coverage.bitmap \in f.merged,
           !.recorded = record]

\* the rest of the iteration in run, once run_method has returned
FuzzFinish ==
    /\ fz.pc = "running"
    /\ status \in Outcomes
    /\ fz' = FinishRun(fz, status, cov)
    /\ UNCHANGED <<state, status, steps, max_steps, cov, hseed, bc, last>>

\* a step of the run raised: the exception leaves run
FuzzRaise ==
    /\ fz.pc = "running"
    /\ status = "fault"
    /\ fz' = [fz EXCEPT !.pc = "raised"]
    /\ UNCHANGED <<state, status, steps, max_steps, cov, hseed, bc, last>>

\* the head of an iteration with the stop flag set: break and return
FuzzStop ==
    /\ fz.pc = "top"
    /\ fz.iteration < fz.max_iters
    /\ StopRequested(fz)
    /\ fz' = [fz EXCEPT !.pc = "returned", !.ret = Score(fz.global_coverage)]
    /\ UNCHANGED <<state, status, steps, max_steps, cov, hseed, bc, last>>

\* range(max_iters) is exhausted: return
FuzzExhausted ==
    /\ fz.pc = "top"
    /\ fz.iteration = fz.max_iters
    /\ fz' = [fz EXCEPT !.pc = "returned", !.ret = Score(fz.global_coverage)]
    /\ UNCHANGED <<state, status, steps, max_steps, cov, hseed, bc, last>>

\* Fuzzer._handle_sigint.  __init__ installs the handler and nothing removes
\* it: the signal can arrive before run, during its seeding, at any moment
\* of its loop and after it returned or raised
Sigint ==
    /\ fz.pc \in {"init", "top", "running", "returned", "raised"}
    /\ ~fz.stop_requested
    /\ fz' = [fz EXCEPT !.stop_requested = TRUE]
    /\ UNCHANGED <<state, status, steps, max_steps, cov, hseed, bc, last>>

\* a session on any target, with a small or a large iteration cap; the
\* hash that puts an auxiliary location of a comparison past the end of the
\* map is taken for the target that compares
InitFuzz ==
    \E target \in Targets, max_iters \in IterCaps, h \in HashSeeds :
        /\ h # HashesOfM39 => target.bc = TargetCompare
        /\ InitFuzzer(target, FuzzSteps, max_iters, h)
FuzzProgress ==
    \/ FuzzSeed \/ FuzzStart \/ FuzzStep \/ FuzzBudget \/ FuzzFinish \/ FuzzRaise
    \/ FuzzStop \/ FuzzExhausted
NextFuzz == FuzzProgress \/ Sigint
SpecFuzz == InitFuzz /\ [][NextFuzz]_vars
\* the process that runs the fuzzer is scheduled; a signal need not arrive
SpecFuzzFair == SpecFuzz /\ WF_vars(FuzzProgress)

----------------------------------------------------------------------------
(* Coverage merging and crash recording over the iterations of a session *)

RECURSIVE RunFrom(_, _, _, _)
\* the loop of run_method on the opcodes of method, with n iterations left
RunFrom(method, st, c, n) ==
    IF n = 0 THEN [result |-> "*", cov |-> c]
    ELSE IF TopFrame(st).pc \notin DOMAIN method THEN [result |-> "fault", cov |-> c]
    ELSE LET r == Step(st, method[TopFrame(st).pc], c)
         IN  IF r.kind = "state" THEN RunFrom(method, r.st, r.cov, n - 1)
             ELSE [result |-> StatusOf(r), cov |-> r.cov]

\* Interpreter.run_method as one function: the result and the local map
RunMethod(method, method_args, m, c) ==
    RunFrom(method, NewState(NewFrame(ArgLocals(method_args))), c, m)

\* the signature the run of a testcase's inputs has in this session
SignatureOf(tc) ==
    LET r == RunMethod(bc, tc.input_values, max_steps, Reset(cov))
    IN  Signature(r.result, r.cov)

\* an iteration goes from its run to the end of its body
FinishesIteration == fz.pc = "running" /\ fz'.pc \in {"top", "returned"}

\* C7: from one iteration to the next the score of the global coverage map
\* never decreases, and an iteration whose run gives a local map that was
\* merged before leaves the global map as it was
C7_CoverageMonotone ==
    [][/\ Score(fz'.global_coverage) >= Score(fz.global_coverage)
       /\ (FinishesIteration /\ cov.bitmap \in fz.merged)
             => fz'.global_coverage = fz.global_coverage]_vars

\* an iteration has merged a local map that an earlier one had merged, in a
\* session that has covered three locations or more
C7_Witness ==
    /\ fz.pc \in {"top", "returned"}
    /\ fz.remerge
    /\ fz.iteration >= 2
    /\ Score(fz.global_coverage) >= 3

\* C8: the crash list never holds two testcases with the same signature, it
\* is as long as the signature set is large, its signatures are the set's,
\* and no inputs are recorded twice
C8_CrashesUnique ==
    /\ Len(fz.crashes) = Cardinality(fz.crash_signatures)
    /\ {SignatureOf(fz.crashes[i]) : i \in 1..Len(fz.crashes)} = fz.crash_signatures
    /\ \A i, j \in 1..Len(fz.crashes) :
          i # j => /\ SignatureOf(fz.crashes[i]) # SignatureOf(fz.crashes[j])
                   /\ fz.crashes[i].input_values # fz.crashes[j].input_values

\* inputs that are in the crash list were run again, crashed again, and were
\* not recorded again
C8_Witness ==
    /\ fz.pc \in {"top", "returned"}
    /\ IsCrash(fz.result)
    /\ ~fz.recorded
    /\ Len(fz.crashes) = 1
    /\ fz.crashes[1].input_values = fz.testcase.input_values

\* C9: an iteration whose run ends with an outcome other than ok (the
\* budget's "*" included) and a signature not seen appends its testcase to
\* the crash list and adds the signature; an iteration whose run ends with
\* ok changes neither the crash list nor the signature set
C9_CrashRecorded ==
    [][FinishesIteration =>
         LET sig == Signature(status, cov)
             tc == [fz.testcase EXCEPT !.coverage_score = Score(cov)]
         IN  /\ (status \in Outcomes \ {"ok"} /\ sig \notin fz.crash_signatures)
                   => /\ fz'.crashes = Append(fz.crashes, tc)
                      /\ fz'.crash_signatures = fz.crash_signatures \cup {sig}
             /\ status = "ok"
                   => /\ fz'.crashes = fz.crashes
                      /\ fz'.crash_signatures = fz.crash_signatures]_vars

\* a run that used its budget up was recorded after another crash
C9_Witness ==
    /\ fz.pc \in {"top", "returned"}
    /\ fz.recorded
    /\ fz.result = "*"
    /\ fz.crashes[Len(fz.crashes)] = fz.testcase

\* C10 as claimed: the loop ends, makes at most max_iters iterations,
\* returns the global score, and leaves for stagnation right after the first
\* iteration at whose end the stagnation counter has exceeded the limit
C10_ExitsPastLimit ==
    /\ <>(fz.pc \in {"returned", "raised"})
    /\ [](fz.iteration <= fz.max_iters)
    /\ [](fz.pc = "returned" => fz.ret = Score(fz.global_coverage))
    /\ [](fz.pc \in {"top", "running"} => fz.stagnant_iters <= STAGNANT_ITER_LIMIT)
    /\ [][FinishesIteration =>
            ((fz'.pc = "returned") <=> (fz'.stagnant_iters > STAGNANT_ITER_LIMIT))]_vars

\* C10, amended: the loop ends, by a return or by an exception an iteration
\* raised; it makes at most max_iters iterations; when it returns, it
\* returns the global score; and it leaves for stagnation right after the
\* first iteration at whose end the stagnation counter has reached the
\* limit, never going on with the counter at the limit and never leaving
\* for stagnation below it
C10_LoopTerminates ==
    /\ <>(fz.pc \in {"returned", "raised"})
    /\ [](fz.iteration <= fz.max_iters)
    /\ [](fz.pc = "returned" => fz.ret = Score(fz.global_coverage))
    /\ [](fz.pc \in {"top", "running"} => fz.stagnant_iters < STAGNANT_ITER_LIMIT)
    /\ [][FinishesIteration =>
            ((fz'.pc = "returned") <=> (fz'.stagnant_iters >= STAGNANT_ITER_LIMIT))]_vars

\* the loop was left for stagnation, with the counter at the limit, before
\* the iteration cap
C10_Witness ==
    /\ fz.pc = "returned"
    /\ fz.stagnant_iters = STAGNANT_ITER_LIMIT
    /\ fz.iteration < fz.max_iters

----------------------------------------------------------------------------
(* Stop requests *)

\* the variables of the interpreter's run
runvars == <<state, status, steps, cov, last>>

\* the rest of the iteration was done on the run that ended with status and
\* the local map cov: merge, corpus update, crash recording
IterationDone ==
    LET merge == IsInterestingRun(cov, fz.global_coverage)
        tc == [fz.testcase EXCEPT !.coverage_score = Score(cov)]
        sig == Signature(status, cov)
    IN  /\ status \in Outcomes
        /\ fz'.result = status
        /\ fz'.global_coverage = merge.global_map
        /\ fz'.corpus = IF merge.interesting THEN Append(fz.corpus, tc) ELSE fz.corpus
        /\ fz'.crashes = IF status # "ok" /\ sig \notin fz.crash_signatures
                         THEN Append(fz.crashes, tc) ELSE fz.crashes

\* C11: a stop request only sets the flag, at any moment of run; with the
\* flag set an iteration in flight goes on to the end of its run and is left
\* only with its merge, corpus update and crash recording done (or by the
\* exception a step raised); the flag is acted on at the head of an
\* iteration, where a set flag starts no run and no iteration; and an
\* iteration in flight with the flag set comes to its end
C11_StopCooperative ==
    /\ [][fz'.stop_requested # fz.stop_requested
             => /\ fz' = [fz EXCEPT !.stop_requested = TRUE]
                /\ UNCHANGED runvars]_vars
    /\ [][(fz.pc = "running" /\ fz'.pc # "running")
             => \/ IterationDone /\ fz'.pc \in {"top", "returned"}
                \/ status = "fault" /\ fz'.pc = "raised"]_vars
    /\ [][(fz.pc = "running" /\ fz.stop_requested /\ status = "run")
             => fz'.pc = "running" /\ (steps' = steps + 1 \/ status' = "*")]_vars
    /\ [][(fz.pc = "top" /\ fz.stop_requested)
             => /\ fz'.pc = "returned"
                /\ fz'.iteration = fz.iteration
                /\ fz'.corpus = fz.corpus
                /\ UNCHANGED runvars]_vars
    /\ [](fz.pc = "running" /\ fz.stop_requested
             => <>(fz.pc \in {"top", "returned", "raised"}))

\* the flag was set while a run was in flight, and the run went on to an
\* outcome that is a crash
C11_Witness ==
    /\ fz.pc = "running"
    /\ fz.stop_requested
    /\ status = "assertion error"
    /\ steps >= 4

----------------------------------------------------------------------------
(* Corpus and stagnation counter after a run *)

\* C12: after the run of an iteration, if is_interesting_run returned true
\* the child (with its score) is appended to the corpus and the stagnation
\* counter becomes 0; if it returned false the corpus is unchanged and the
\* counter grows by exactly 1; nothing else changes either of them after
\* the seed is in the corpus
C12_CorpusAndStagnation ==
    [][IF FinishesIteration
       THEN LET merge == IsInterestingRun(cov, fz.global_coverage)
                tc == [fz.testcase EXCEPT !.coverage_score = Score(cov)]
            IN  /\ fz'.interesting = merge.interesting
                /\ merge.interesting
                      => /\ fz'.corpus = Append(fz.corpus, tc)
                         /\ fz'.stagnant_iters = 0
                /\ ~merge.interesting
                      => /\ fz'.corpus = fz.corpus
                         /\ fz'.stagnant_iters = fz.stagnant_iters + 1
       ELSE fz.pc # "init"
               => /\ fz'.corpus = fz.corpus
                  /\ fz'.stagnant_iters = fz.stagnant_iters]_vars

\* an interesting run after a run that was not: the counter is back at 0 and
\* the child is the last testcase of the corpus
C12_Witness ==
    /\ fz.pc = "top"
    /\ fz.interesting
    /\ fz.stagnant_iters = 0
    /\ fz.iteration >= Len(fz.corpus)
    /\ Len(fz.corpus) >= 3
    /\ fz.corpus[Len(fz.corpus)] = fz.testcase

----------------------------------------------------------------------------
(* Corpus size *)

\* C13 as claimed, for what the code has a notion of (a Testcase carries no
\* stagnation counter of its own): at the end of every iteration the corpus
\* holds at most max_corpus_size testcases
C13_CorpusPruned ==
    fz.pc \in {"top", "returned"} => Len(fz.corpus) <= fz.max_corpus_size

----------------------------------------------------------------------------
(* String operations on null: methods made of string pushes, null pushes,
   concat, equals and equalsIgnoreCase *)

\* the step budget of these runs
StrSteps == 3

DoConcat == Operands(2) /\ IsStr(0) /\ IsStr(1) /\ Exec(InvokeVirtual(JString, "concat"))
DoEqualsIgnoreCase ==
    Operands(2) /\ IsStr(0) /\ IsStr(1) /\ Exec(InvokeVirtual(JString, "equalsIgnoreCase"))

\* the argument is the String "A"
InitStrings ==
    \E cc \in CoverageChoices : InitRun(<<StringV(<<65>>)>>, StrSteps, cc[1], cc[2])
NextStrings ==
    \/ DoPushLiteral \/ DoPushNull \/ DoLoadArg \/ DoConcat \/ DoEquals
    \/ DoEqualsIgnoreCase \/ Budget
SpecStrings == InitStrings /\ [][NextStrings]_vars

\* the last step was the String operation name on a receiver and an argument
StringOpOf(name) ==
    /\ last.opr = InvokeVirtual(JString, name)
    /\ Need(TopFrame(last.pre), 2)

\* C14: concat ends the run with 'null pointer' when the receiver or the
\* argument is null, and otherwise pushes a reference to a new heap string
\* whose content is the receiver's followed by the argument's
C14_Concat ==
    StringOpOf("concat") =>
        LET arg == Peek(TopFrame(last.pre), 0)
            recv == Peek(TopFrame(last.pre), 1)
            ref == Peek(TopFrame(state), 0)
        IN  IF recv.k = "none" \/ arg.k = "none" THEN status = "null pointer"
            ELSE /\ status = "run"
                 /\ TopFrame(state).stack = Append(PopN(TopFrame(last.pre), 2).stack, ref)
                 /\ ref.t = "ref" /\ ref.k = "int"
                 /\ ref.n \notin DOMAIN last.pre.heap
                 /\ state.heap[ref.n] =
                       GetString(last.pre, recv).s \o GetString(last.pre, arg).s

\* C15: equals and equalsIgnoreCase on a null receiver or a null argument
\* push false, and the step neither ends the run nor raises, with coverage
\* disabled and with coverage enabled
C15_EqualsNull ==
    \A name \in {"equals", "equalsIgnoreCase"} :
        StringOpOf(name) =>
            LET other == Peek(TopFrame(last.pre), 0)
                recv == Peek(TopFrame(last.pre), 1)
            IN  (recv.k = "none" \/ other.k = "none")
                   => /\ status = "run"
                      /\ TopFrame(state).stack =
                            Append(PopN(TopFrame(last.pre), 2).stack, BoolV(FALSE))

----------------------------------------------------------------------------
(* Integer arithmetic at the ends of the int range *)

\* stands for the 32 bits of a JVM int, scaled down
IntBits == 8
\* the step budget of these runs
ArithSteps == 3

\* the least and the greatest int of IntBits bits
IntMin == 0 - 2 ^ (IntBits - 1)
IntMax == 2 ^ (IntBits - 1) - 1
InIntRange(n) == IntMin <= n /\ n <= IntMax
\* n wrapped modulo 2 ^ IntBits into the int range
WrapInt(n) == ((n - IntMin) % (2 ^ IntBits)) + IntMin

\* the integers a method pushes and is called with
ArithInts == {IntMin, -1, 2, IntMax}

DoPushEdge == \E n \in ArithInts : Exec(Push(IntV(n)))
DoArith ==
    \E c \in {"add", "sub", "mul"} :
        Operands(2) /\ IsInt(0) /\ IsInt(1) /\ Exec(Binary(c))
DoIncr == \E amount \in {-1, 1} : Exec(Incr(0, amount))

InitArith ==
    \E n \in ArithInts, c \in {NoCoverage, NewCoverage} :
        InitRun(<<IntV(n)>>, ArithSteps, c, HashesOfM39)
NextArith == DoPushEdge \/ DoLoadArg \/ DoArith \/ DoDiv \/ DoIncr \/ Budget
SpecArith == InitArith /\ [][NextArith]_vars

\* the exact result of the integer operation c
ExactOf(c, a, b) ==
    CASE c = "add" -> a + b
      [] c = "sub" -> a - b
      [] c = "mul" -> a * b
      [] OTHER -> TruncDiv(a, b)

\* C16: every integer on the operand stack and in a local slot lies in the
\* int range, what add, sub and mul push is the exact result wrapped into
\* the range, and what an increment stores is the sum wrapped into the range
C16_IntsWrap ==
    LET f == TopFrame(state)
        g == TopFrame(last.pre)
    IN  Len(state.frames) > 0 =>
        /\ \A i \in 1..Len(f.stack) : f.stack[i].t = "int" => InIntRange(f.stack[i].n)
        /\ \A i \in DOMAIN f.locals : f.locals[i].t = "int" => InIntRange(f.locals[i].n)
        /\ (last.opr.op = "binary" /\ last.opr.c \in {"add", "sub", "mul"} /\ status = "run")
              => Peek(f, 0) = IntV(WrapInt(ExactOf(last.opr.c, Peek(g, 1).n, Peek(g, 0).n)))
        /\ (last.opr.op = "incr" /\ status = "run")
              => f.locals[0] = IntV(WrapInt(g.locals[0].n + last.opr.n))

----------------------------------------------------------------------------
(* Instructions that are not modeled, inside a session *)

\* C17: a step on an instruction that is not modeled raises (it gives no
\* successor state and no Outcome); in a session the exception ends run: no
\* step follows it (all that can still happen is a signal setting the stop
\* flag), and from the head of the iteration to the exception the corpus,
\* the crash list, the signature set and the global coverage map are not
\* changed
C17_UnmodeledIsFatal ==
    /\ [][(fz.pc = "running" /\ status = "run" /\ steps' = steps + 1
              /\ bc[TopFrame(state).pc] = Unmodeled)
             => status' = "fault"]_vars
    /\ [][(fz.pc = "running" /\ status = "fault")
             => /\ fz'.pc \in {"running", "raised"}
                /\ UNCHANGED runvars]_vars
    /\ [][(fz.pc = "running" /\ fz'.pc \in {"running", "raised"})
             => /\ fz'.corpus = fz.corpus
                /\ fz'.crashes = fz.crashes
                /\ fz'.crash_signatures = fz.crash_signatures
                /\ fz'.global_coverage = fz.global_coverage]_vars
    /\ [][fz.pc = "raised"
             => /\ fz' = [fz EXCEPT !.stop_requested = TRUE]
                /\ UNCHANGED runvars]_vars

\* a session that had merged a run was ended by an instruction that is not
\* modeled; the testcase is in neither list
C17_Witness ==
    /\ fz.pc = "raised"
    /\ status = "fault"
    /\ last.opr = Unmodeled
    /\ Score(fz.global_coverage) >= 3
    /\ \A i \in 1..Len(fz.corpus) : fz.corpus[i].input_values # fz.testcase.input_values
    /\ fz.crashes = <<>>

----------------------------------------------------------------------------
(* Throw *)

\* C18: a Throw step always ends the run, with 'null pointer' when the
\* thrown value is null and with 'assertion error' for every other value
C18_Throw ==
    (last.opr = Throw /\ Need(TopFrame(last.pre), 1)) =>
        status = IF Peek(TopFrame(last.pre), 0).k = "none"
                 THEN "null pointer" ELSE "assertion error"

\* the value 0 that New leaves for an object was thrown
C18_Witness ==
    /\ last.opr = Throw
    /\ Peek(TopFrame(last.pre), 0) = IntV(0)
    /\ status = "assertion error"
    /\ bc[0] = New("java/lang/AssertionError")

-----------------------------------------------------------------------------
(* Fuzzing the magic-number target *)

\* an iteration cap no session on the magic-number target reaches: the
\* stagnation limit ends every session first
MagicIters == 40

\* Fuzzer(methodid, max_steps, max_iters) on the magic-number target
InitMagic ==
    \E h \in HashSeeds :
        InitFuzzer([bc |-> TargetMagic, params |-> <<"int">>], FuzzSteps, MagicIters, h)
\* no signal arrives, no run exceeds its step budget and the cap is not reached
NextMagic == FuzzSeed \/ FuzzStart \/ FuzzStep \/ FuzzFinish \/ FuzzRaise
SpecMagic == InitMagic /\ [][NextMagic]_vars
\* the loop of run goes on while it can, and a child the generator can draw
\* again and again is drawn in the end
SpecMagicFair ==
    /\ SpecMagic
    /\ WF_vars(NextMagic)
    /\ \A v \in MagicInts :
          SF_vars(FuzzStart /\ fz'.testcase.input_values = <<IntV(v)>>)

\* the session has recorded the crash of the input 424242
MagicCrashRecorded ==
    \E i \in 1..Len(fz.crashes) : fz.crashes[i].input_values = <<IntV(MagicNumber)>>

\* the partial matches of x with the constant that log_int32_cmp reports:
\* the sign, then the top byte, the second byte and the third byte
PartialMatches(x) ==
    IF x < 0 THEN 0
    ELSE IF ByteOf(x, 3) # ByteOf(MagicNumber, 3) THEN 1
    ELSE IF ByteOf(x, 2) # ByteOf(MagicNumber, 2) THEN 2
    ELSE IF ByteOf(x, 1) # ByteOf(MagicNumber, 1) THEN 3
    ELSE 4

\* a run that completes on an input with more partial matches than every
\* input run and kept before is kept in the corpus and resets the stagnation
\* counter (this part of the scenario holds)
MagicPartialMatchKept ==
    [][(/\ FinishesIteration
        /\ \A i \in 2..Len(fz.corpus) :
              PartialMatches(fz.corpus[i].input_values[1].n)
                  < PartialMatches(fz.testcase.input_values[1].n))
         => /\ fz'.interesting
            /\ fz'.stagnant_iters = 0
            /\ Len(fz'.corpus) = Len(fz.corpus) + 1
            /\ fz'.corpus[Len(fz'.corpus)].input_values = fz.testcase.input_values]_vars

\* C19: fuzzing void f(int x) { if (x == 424242) throw ... } with comparison
\* feedback, fair random choices and an iteration cap that is never reached
\* eventually records the crash of the input 424242: the partial matches
\* keep the session from ending by stagnation.  (The session can end first.)
C19_EventuallyCrash == <>MagicCrashRecorded

\* the ways a session ends without the crash: the stagnation limit, and the
\* IndexError of an auxiliary location past the bitmap
MagicStagnated ==
    /\ fz.pc = "returned"
    /\ fz.stagnant_iters >= STAGNANT_ITER_LIMIT
    /\ fz.iteration < fz.max_iters
    /\ fz.crashes = <<>>
MagicRaised == fz.pc = "raised" /\ fz.crashes = <<>>

-----------------------------------------------------------------------------
(* Two sessions with one seed *)

\* random.Random(seed): the generator as its state.  Each draw of the code
\* reads the state and advances it; a linear congruential generator stands
\* for the Mersenne Twister, both being functions of the seed alone.
RandomModulus == 16
RandomNext(r) == (5 * r + 3) % RandomModulus
\* randrange(n), randint(a, b), choice(seq) and random() < tenths / 10 on
\* the state r
Randrange(r, n) == r % n
Randint(r, a, b) == a + (r % (b - a + 1))
Choice(seq, r) == seq[Randrange(r, Len(seq)) + 1]
RandomBelow(r, tenths) == (r % 10) < tenths
\* a draw from a range of integers given as a set: its elements in order
ChoiceInt(S, r) ==
    CHOOSE x \in S : Cardinality({y \in S : y < x}) = Randrange(r, Cardinality(S))

\* the two draws of the module-level random.random() in mutate_int: whether
\* the first is < 0.2 and whether the second is < 0.8.  Nothing seeds that
\* generator, so a session can see any outcome.
Unseeded == [first : BOOLEAN, second : BOOLEAN]

\* Fuzzer.generate_testcase with self.random in state r
GenerateTestcaseSeeded(params, r) ==
    IF Len(params) = 0 THEN [tc |-> Testcase(<<>>, 0, 0), random |-> r]
    ELSE [tc |-> Testcase(<<IntV(ChoiceInt(SeedInts, r))>>, 0, 0),
          random |-> RandomNext(r)]

\* Fuzzer.pick_parent_uniform with self.random in state r
PickParentUniformSeeded(corpus, params, r) ==
    IF Len(corpus) = 0 THEN GenerateTestcaseSeeded(params, r)
    ELSE LET below(tc) == tc.coverage_score < ScoreThreshold(corpus)
             filtered == SelectSeq(corpus, below)
         IN  [tc |-> Choice(IF filtered = <<>> THEN corpus ELSE filtered, r),
              random |-> RandomNext(r)]

\* Fuzzer.pick_parent_exploit with self.random in state r
PickParentExploitSeeded(corpus, params, r) ==
    IF Len(corpus) = 0 THEN GenerateTestcaseSeeded(params, r)
    ELSE LET atleast(tc) == tc.coverage_score >= ScoreThreshold(corpus)
             below(tc) == tc.coverage_score < ScoreThreshold(corpus)
             best_parent == Choice(SelectSeq(corpus, atleast), r)
             r1 == RandomNext(r)
             others == SelectSeq(corpus, below)
         IN  IF Len(corpus) = 1 THEN [tc |-> best_parent, random |-> r1]
             ELSE IF RandomBelow(r1, 7) \/ others = <<>>
             THEN [tc |-> best_parent, random |-> RandomNext(r1)]
             ELSE [tc |-> Choice(others, RandomNext(r1)),
                   random |-> RandomNext(RandomNext(r1))]

\* Fuzzer.schedule_testcase with self.random in state r
ScheduleTestcaseSeeded(corpus, params, stagnant_iters, r) ==
    IF stagnant_iters <= STAGNANT_CHANGE_STRATEGY
    THEN PickParentExploitSeeded(corpus, params, r)
    ELSE PickParentUniformSeeded(corpus, params, r)

\* Fuzzer.mutate_int with self.random in state r: the branch is chosen by
\* the unseeded draws u, the delta, the byte and the shift by self.random
MutateIntSeeded(val, r, u) ==
    IF u.first
    THEN [n |-> val + ChoiceInt(MutDeltas, r), random |-> RandomNext(r)]
    ELSE IF u.second
    THEN [n |-> ReplaceByte(val, ChoiceInt(MutBytes, r),
                            ChoiceInt(MutShifts, RandomNext(r))),
          random |-> RandomNext(RandomNext(r))]
    ELSE [n |-> 0 - val, random |-> r]

RECURSIVE MutateValsSeeded(_, _, _, _)
\* the loop of mutate_testcase with self.random in state r: num more
\* mutations of new_vals, the k-th taking the unseeded draws us[k]
MutateValsSeeded(new_vals, num, r, us) ==
    IF num = 0 THEN [vals |-> new_vals, random |-> r]
    ELSE LET idx == Randrange(r, Len(new_vals)) + 1
             m == MutateIntSeeded(new_vals[idx].n, RandomNext(r), Head(us))
         IN  MutateValsSeeded([new_vals EXCEPT ![idx] = IntV(m.n)], num - 1,
                              m.random, Tail(us))

\* Fuzzer.mutate_testcase with self.random in state r
MutateTestcaseSeeded(parent, r, us) ==
    LET num_mutations == Randint(r, 1, MaxMutations)
        res == MutateValsSeeded(parent.input_values, num_mutations, RandomNext(r), us)
    IN  [tc |-> Testcase(res.vals, 0, parent.depth + 1), random |-> res.random]

\* the sessions compared
Sessions == {1, 2}
\* the seeds given with --seed
Seeds == {1, 4}
\* the iteration cap of the sessions compared
SeededIters == 3

\* a session: its Fuzzer f, the state of its self.random, and as history
\* the input values it generated and the unseeded draws it saw
NewSession(params, max_iters, seed) ==
    [f |-> NewFuzzer(params, max_iters),
     random |-> seed % RandomModulus,
     generated |-> <<>>,
     drawn |-> <<>>]

\* Fuzzer.run up to its loop, in session s
SessionSeed(s) ==
    /\ fz[s].f.pc = "init"
    /\ LET g == GenerateTestcaseSeeded(fz[s].f.params, fz[s].random)
       IN  fz' = [fz EXCEPT ![s] =
                    [@ EXCEPT !.f = [@ EXCEPT !.pc = "top",
                                               !.corpus = Append(@, g.tc)],
                              !.random = g.random,
                              !.generated = Append(@, g.tc.input_values)]]
    /\ UNCHANGED <<state, status, steps, max_steps, cov, hseed, bc, last>>

\* one iteration of the loop of run in session s, its run_method included
SessionIterate(s) ==
    /\ fz[s].f.pc = "top"
    /\ fz[s].f.iteration < fz[s].f.max_iters
    /\ \E us \in [1..MaxMutations -> Unseeded] :
          LET f == fz[s].f
              sch == ScheduleTestcaseSeeded(f.corpus, f.params, f.stagnant_iters,
                                            fz[s].random)
              child == MutateTestcaseSeeded(sch.tc, sch.random, us)
              run == RunMethod(bc, child.tc.input_values, max_steps, NewCoverage)
              f1 == [f EXCEPT !.iteration = @ + 1, !.testcase = child.tc]
          IN  fz' = [fz EXCEPT ![s] =
                       IF Len(sch.tc.input_values) = 0
                       THEN [@ EXCEPT !.f = [f EXCEPT !.pc = "raised",
                                                      !.iteration = @ + 1],
                                      !.random = RandomNext(sch.random)]
                       ELSE [@ EXCEPT
                               !.f = IF run.result = "fault"
                                     THEN [f1 EXCEPT !.pc = "raised"]
                                     ELSE FinishRun(f1, run.result, run.cov),
                               !.random = child.random,
                               !.generated = Append(@, child.tc.input_values),
                               !.drawn = Append(@, us)]]
    /\ UNCHANGED <<state, status, steps, max_steps, cov, hseed, bc, last>>

\* range(max_iters) is exhausted in session s
SessionExhausted(s) ==
    /\ fz[s].f.pc = "top"
    /\ fz[s].f.iteration = fz[s].f.max_iters
    /\ fz' = [fz EXCEPT ![s] =
                [@ EXCEPT !.f = [@ EXCEPT !.pc = "returned",
                                          !.ret = Score(fz[s].f.global_coverage)]]]
    /\ UNCHANGED <<state, status, steps, max_steps, cov, hseed, bc, last>>

\* two Fuzzers on the compare target in one process, made with the same
\* seed, step budget and iteration cap
InitSeeded ==
    \E seed \in Seeds, h \in HashSeeds :
        /\ state = NewState(NewFrame(EmptyFn))
        /\ status = "idle"
        /\ steps = 0
        /\ max_steps = FuzzSteps
        /\ cov = NewCoverage
        /\ hseed = h
        /\ bc = TargetCompare
        /\ last = NoLast
        /\ fz = [s \in Sessions |-> NewSession(<<"int">>, SeededIters, seed)]
NextSeeded ==
    \E s \in Sessions : SessionSeed(s) \/ SessionIterate(s) \/ SessionExhausted(s)
SpecSeeded == InitSeeded /\ [][NextSeeded]_vars

\* session s has left run
SessionOver(s) == fz[s].f.pc \in {"returned", "raised"}

\* C20: two sessions on the same method with the same seed, step budget and
\* iteration cap generate the same sequence of testcases, and end with the
\* same global coverage score and the same crash list.  (mutate_int chooses
\* its branch with the unseeded module-level generator.)
C20_SameSessions ==
    \A s, t \in Sessions :
        /\ \A i \in 1..Len(fz[s].generated) :
              i <= Len(fz[t].generated) => fz[s].generated[i] = fz[t].generated[i]
        /\ (SessionOver(s) /\ SessionOver(t))
              => /\ Score(fz[s].f.global_coverage) = Score(fz[t].f.global_coverage)
                 /\ fz[s].f.crashes = fz[t].f.crashes

\* what the seed does determine: two sessions that saw the same unseeded
\* draws generated the same testcases
SeededApartFromUnseeded ==
    \A s, t \in Sessions :
        \A i \in 1..Len(fz[s].drawn) :
            (i <= Len(fz[t].drawn) /\ SubSeq(fz[s].drawn, 1, i) = SubSeq(fz[t].drawn, 1, i))
                => fz[s].generated[i + 1] = fz[t].generated[i + 1]

-----------------------------------------------------------------------------
(* The merge of a local map *)

\* the locations at which the local map is informative for the global map g
InterestingLocs(local, g) ==
    {i \in DOMAIN local.bitmap :
        /\ local.bitmap[i] # 0
        /\ g.bitmap[i] = 0 \/ Bucket(local.bitmap[i]) > Bucket(g.bitmap[i])}

\* C21: is_interesting_run returns true exactly when some location has a
\* non-zero local count and a zero global count or a local count in a
\* strictly higher bucket than the global count; exactly those locations of
\* the global map take the local count, every other location of the global
\* map keeps its count, and the local map is left as it was
C21_MergeFrame ==
    [][FinishesIteration
         => /\ fz'.interesting = (InterestingLocs(cov, fz.global_coverage) # {})
            /\ \A i \in DOMAIN cov.bitmap :
                  fz'.global_coverage.bitmap[i] =
                      IF i \in InterestingLocs(cov, fz.global_coverage)
                      THEN cov.bitmap[i] ELSE fz.global_coverage.bitmap[i]
            /\ DOMAIN fz'.global_coverage.bitmap = DOMAIN fz.global_coverage.bitmap
            /\ cov' = cov]_vars

\* the second run of a session has raised a count of the first run into a
\* higher bucket at one location, repeated the count of the first run at
\* another, and was merged
C21_Witness ==
    /\ fz.pc = "top"
    /\ fz.iteration = 2
    /\ fz.interesting
    /\ \E b \in fz.merged :
          /\ \E i \in DOMAIN b :
                /\ b[i] # 0
                /\ Bucket(cov.bitmap[i]) > Bucket(b[i])
                /\ fz.global_coverage.bitmap[i] = cov.bitmap[i]
          /\ \E j \in DOMAIN b :
                /\ b[j] # 0
                /\ cov.bitmap[j] = b[j]
                /\ fz.global_coverage.bitmap[j] = b[j]

-----------------------------------------------------------------------------
(* One counter of a coverage map *)

\* the location that is hit
CovLoc == 0

\* a local map and a global map, both zero
InitCoverage ==
    /\ state = NewState(NewFrame(EmptyFn))
    /\ status = "idle"
    /\ steps = 0
    /\ max_steps = 0
    /\ cov = NewCoverage
    /\ hseed = HashesOfM39
    /\ bc = EmptyFn
    /\ last = NoLast
    /\ fz = [pc |-> "coverage", global_coverage |-> NewCoverage, interesting |-> FALSE]

\* Coverage.hit_loc on the local map
CovHit ==
    /\ cov' = HitLoc(cov, CovLoc)
    /\ UNCHANGED <<state, status, steps, max_steps, hseed, bc, last, fz>>

\* Fuzzer.is_interesting_run(local, global)
CovMerge ==
    /\ LET merge == IsInterestingRun(cov, fz.global_coverage)
       IN  fz' = [fz EXCEPT !.global_coverage = merge.global_map,
                            !.interesting = merge.interesting]
    /\ UNCHANGED <<state, status, steps, max_steps, cov, hseed, bc, last>>

\* Coverage.reset on the local map
CovReset ==
    /\ cov' = Reset(cov)
    /\ UNCHANGED <<state, status, steps, max_steps, hseed, bc, last, fz>>

NextCoverage == CovHit \/ CovMerge \/ CovReset
SpecCoverage == InitCoverage /\ [][NextCoverage]_vars

\* the local and the global count of the location
LocalCount == cov.bitmap[CovLoc]
GlobalCount == fz.global_coverage.bitmap[CovLoc]
\* the values bucket takes on the counts 0..x
BucketsUpTo(x) == {Bucket(v) : v \in 0..x}

\* C22 as claimed: bucket uses the thresholds 1, 2, 4, 8, 16, 32, 128, is
\* monotone, is 0 exactly at 0, and takes exactly 8 distinct values on the
\* counts 0..255, the zero bucket included
C22_EightBuckets ==
    /\ Thresholds = <<1, 2, 4, 8, 16, 32, 128>>
    /\ LocalCount <= GlobalCount => Bucket(LocalCount) <= Bucket(GlobalCount)
    /\ GlobalCount <= LocalCount => Bucket(GlobalCount) <= Bucket(LocalCount)
    /\ Bucket(LocalCount) = 0 <=> LocalCount = 0
    /\ LocalCount = 255 => Cardinality(BucketsUpTo(255)) = 8

\* C22: bucket uses the thresholds 1, 2, 4, 8, 16, 32, 128, is monotone, is 0
\* exactly at 0, and takes exactly 9 distinct values on the counts 0..255,
\* the zero bucket included: the values 0..8, each count up to x taking one
\* of 0..bucket(x)
C22_NineBuckets ==
    /\ Thresholds = <<1, 2, 4, 8, 16, 32, 128>>
    /\ LocalCount <= GlobalCount => Bucket(LocalCount) <= Bucket(GlobalCount)
    /\ GlobalCount <= LocalCount => Bucket(GlobalCount) <= Bucket(LocalCount)
    /\ Bucket(LocalCount) = 0 <=> LocalCount = 0
    /\ BucketsUpTo(LocalCount) = 0..Bucket(LocalCount)
    /\ LocalCount = 255 => Cardinality(BucketsUpTo(255)) = 9

\* the counter has reached 255 while the global map holds a smaller count of
\* the same bucket
C22_Witness ==
    /\ LocalCount = 255
    /\ GlobalCount \in 129..254
    /\ Bucket(GlobalCount) = Bucket(LocalCount)
    /\ ~fz.interesting

-----------------------------------------------------------------------------
(* The parents scheduled *)

\* the top 20% of a corpus by coverage score: with k a fifth of its size
\* rounded up, the testcases that fewer than k testcases score strictly above
TopFifth(corpus) ==
    LET k == (Len(corpus) + 4) \div 5
    IN  {tc \in Range(corpus) :
            Cardinality({i \in 1..Len(corpus) :
                            corpus[i].coverage_score > tc.coverage_score}) < k}
\* the bottom 80%: the rest of the corpus
BottomFourFifths(corpus) == Range(corpus) \ TopFifth(corpus)

\* the loop of run is at its head and has an iteration to make
AtSchedule == fz.pc = "top" /\ fz.iteration < fz.max_iters /\ ~fz.stop_requested
Exploiting == AtSchedule /\ fz.stagnant_iters <= STAGNANT_CHANGE_STRATEGY
Exploring == AtSchedule /\ fz.stagnant_iters > STAGNANT_CHANGE_STRATEGY

\* C23: during exploitation the best parent, the one returned always for a
\* corpus of one testcase and with the high probability otherwise, is one of
\* the top 20% of the corpus by coverage score.  (The threshold is taken from
\* the low end of the sorted scores.)
C23_BestIsTopFifth ==
    Exploiting => BestCandidates(fz.corpus) \subseteq TopFifth(fz.corpus)

\* C24: during exploration the testcases that can be returned as parent are
\* exactly the bottom 80% of the corpus by coverage score.  (The candidates
\* are the testcases strictly below the low threshold, or the whole corpus.)
C24_ExploreBottom ==
    Exploring => PickParentUniform(fz.corpus, fz.params) = BottomFourFifths(fz.corpus)

\* an iteration starts: schedule_testcase and mutate_testcase are called
StartsIteration == fz.pc = "top" /\ fz'.iteration = fz.iteration + 1

\* C25: the scheduling mode is recomputed at every iteration from the
\* current stagnation counter alone: the parent comes from
\* pick_parent_exploit whenever the counter is at most the strategy threshold
\* and from pick_parent_uniform whenever it is above; the iteration after an
\* interesting run schedules by exploitation whatever the mode was before
C25_ModeRecomputed ==
    [][StartsIteration
         => /\ fz.stagnant_iters <= STAGNANT_CHANGE_STRATEGY
                 => /\ fz'.mode = "exploit"
                    /\ fz'.parent \in PickParentExploit(fz.corpus, fz.params)
            /\ fz.stagnant_iters > STAGNANT_CHANGE_STRATEGY
                 => /\ fz'.mode = "uniform"
                    /\ fz'.parent \in PickParentUniform(fz.corpus, fz.params)
            /\ (fz.iteration >= 1 /\ fz.interesting) => fz'.mode = "exploit"]_vars

\* an iteration scheduled by exploitation follows an interesting iteration
\* that was scheduled by exploration
C25_Witness ==
    /\ fz.pc = "running"
    /\ fz.mode = "exploit"
    /\ fz.mode_before = "uniform"
    /\ fz.interesting
    /\ fz.iteration >= 4

-----------------------------------------------------------------------------
(* Deriving a child: the objects of mutate_testcase *)

\* Python objects have an identity.  In this part fz holds the list objects
\* of the array inputs (lists, indexed by identity) and the Testcase objects
\* (testcases, indexed by identity); a jvm.Value of array type holds the
\* identity of its list, and the corpus holds identities of testcases.
\* Strings and ints are immutable and are held by value.
ArrayV(id) == [t |-> "array", k |-> "list", n |-> id, s |-> <<>>]

\* the lengths of the arrays of the model, and the children derived in one
\* session
ArrayLens == 0..2
DerivedIds == 2..3
\* the arrays generate_array returns in the model
SeedArrays == {<<>>, <<0>>}

\* arr[:pos] + [new_elem] + arr[pos:]
InsertAt(arr, pos, new_elem) ==
    SubSeq(arr, 1, pos) \o <<new_elem>> \o SubSeq(arr, pos + 1, Len(arr))

\* the lists mutate_array can build from arr: an element inserted, or one
\* element changed by mutate_int
MutatedArrays(arr) ==
    {InsertAt(arr, pos, e) : pos \in 0..Len(arr), e \in SeedInts}
    \cup UNION {{[arr EXCEPT ![pos] = e] : e \in MutateInt(arr[pos])} :
                    pos \in 1..Len(arr)}

\* a mutate_array that changes the list it is given
MutateArrayInPlace(lists, id) ==
    {[lists |-> [lists EXCEPT ![id] = new_arr], v |-> ArrayV(id)] :
        new_arr \in {a \in MutatedArrays(lists[id]) :
                        /\ Len(a) \in ArrayLens
                        /\ \A i \in 1..Len(a) : a[i] \in InputInts}}

\* Fuzzer.mutate_array on the list object id: new_arr is a new list object
MutateArray(lists, id) ==
    {[lists |-> Append(lists, new_arr), v |-> ArrayV(Len(lists) + 1)] :
        new_arr \in {a \in MutatedArrays(lists[id]) :
                        /\ Len(a) \in ArrayLens
                        /\ \A i \in 1..Len(a) : a[i] \in InputInts}}

\* Fuzzer.mutate_value with the list objects
MutateValueIn(lists, v) ==
    IF v.t = "array" THEN MutateArray(lists, v.n)
    ELSE {[lists |-> lists, v |-> IntV(n)] : n \in MutateInt(v.n) \cap InputInts}

RECURSIVE MutateValsIn(_, _, _)
\* the loop of mutate_testcase with the list objects: num more mutations
MutateValsIn(lists, new_vals, num) ==
    IF num = 0 THEN {[lists |-> lists, vals |-> new_vals]}
    ELSE UNION {UNION {MutateValsIn(m.lists, [new_vals EXCEPT ![idx] = m.v], num - 1) :
                          m \in MutateValueIn(lists, new_vals[idx])} :
                   idx \in 1..Len(new_vals)}

\* Fuzzer.mutate_testcase with the list objects: new_vals holds a new Value
\* for every input of the parent, with the parent's value object in it
MutateTestcaseIn(lists, parent) ==
    {[lists |-> r.lists, tc |-> Testcase(r.vals, 0, parent.depth + 1)] :
        r \in UNION {MutateValsIn(lists, parent.input_values, num) :
                        num \in 1..MaxMutations}}

\* the step budgets of these sessions: no step at all, and enough for every
\* path of the target
MutateBudgets == {0, 4}

\* a Fuzzer before run, for the method
\* void f(int x, int[] a) { if (x != 0) ...; } whose other branch holds an
\* opcode step has no case for
InitMutate ==
    /\ state = NewState(NewFrame(EmptyFn))
    /\ status = "idle"
    /\ steps = 0
    /\ max_steps \in MutateBudgets
    /\ cov = NewCoverage
    /\ hseed = HashesOfM39
    /\ bc = TargetUnmodeled
    /\ last = NoLast
    /\ fz = [pc |-> "init", lists |-> <<>>, testcases |-> <<>>, corpus |-> <<>>,
             global_coverage |-> NewCoverage,
             parent |-> 0, child |-> 0,
             before |-> [lists |-> <<>>, testcases |-> <<>>]]

\* generate_testcase and the first corpus.append of run
MutSeed ==
    /\ fz.pc = "init"
    /\ \E n \in SeedInts, arr \in SeedArrays :
          fz' = [fz EXCEPT !.pc = "top",
                           !.lists = <<arr>>,
                           !.testcases = <<Testcase(<<IntV(n), ArrayV(1)>>, 0, 0)>>,
                           !.corpus = <<1>>]
    /\ UNCHANGED <<state, status, steps, max_steps, cov, hseed, bc, last>>

\* schedule_testcase and mutate_testcase: before is what the objects were
MutDerive ==
    /\ fz.pc = "top"
    /\ Len(fz.testcases) + 1 \in DerivedIds
    /\ \E p \in Range(fz.corpus) :
          \E r \in MutateTestcaseIn(fz.lists, fz.testcases[p]) :
              fz' = [fz EXCEPT !.pc = "derived",
                               !.lists = r.lists,
                               !.testcases = Append(@, r.tc),
                               !.parent = p,
                               !.child = Len(fz.testcases) + 1,
                               !.before = [lists |-> fz.lists,
                                           testcases |-> fz.testcases]]
    /\ UNCHANGED <<state, status, steps, max_steps, cov, hseed, bc, last>>

\* the run of the child and the rest of the iteration: coverage.reset() and
\* run_method on the child's inputs; when a step raised the exception leaves
\* run with nothing stored; otherwise is_interesting_run merges the local
\* map, local_coverage.score() is stored in the child, and the child is
\* appended to the corpus when its run was interesting
MutRun ==
    /\ fz.pc = "derived"
    /\ LET r == RunMethod(bc, fz.testcases[fz.child].input_values, max_steps, Reset(cov))
           merge == IsInterestingRun(r.cov, fz.global_coverage)
       IN  /\ cov' = r.cov
           /\ fz' = IF r.result = "fault"
                    THEN [fz EXCEPT !.pc = "raised"]
                    ELSE [fz EXCEPT !.pc = "top",
                                    !.global_coverage = merge.global_map,
                                    !.testcases[fz.child].coverage_score = Score(r.cov),
                                    !.corpus = IF merge.interesting
                                               THEN Append(@, fz.child) ELSE @]
    /\ UNCHANGED <<state, status, steps, max_steps, hseed, bc, last>>

NextMutate == MutSeed \/ MutDerive \/ MutRun
SpecMutate == InitMutate /\ [][NextMutate]_vars

\* the inputs of a testcase with the contents of its arrays
Contents(tc, lists) ==
    [i \in 1..Len(tc.input_values) |->
        IF tc.input_values[i].t = "array" THEN lists[tc.input_values[i].n]
        ELSE <<tc.input_values[i].n>>]

\* C26: deriving and running a child changes no testcase that existed
\* before: the parent and every testcase of the corpus keep their input
\* values, the contents of their arrays, their coverage score and their depth
C26_ParentUnchanged ==
    fz.pc \in {"derived", "top", "raised"}
        => /\ \A id \in 1..Len(fz.before.testcases) :
                 /\ fz.testcases[id] = fz.before.testcases[id]
                 /\ Contents(fz.testcases[id], fz.lists)
                        = Contents(fz.before.testcases[id], fz.before.lists)
           /\ \A l \in 1..Len(fz.before.lists) : fz.lists[l] = fz.before.lists[l]

\* a child was derived from a parent that is itself a child, its array
\* differs from the parent's, and it was run
C26_Witness ==
    /\ fz.pc = "top"
    /\ fz.parent >= 2
    /\ fz.testcases[fz.child].coverage_score > 0
    /\ fz.testcases[fz.child].input_values[2] # fz.testcases[fz.parent].input_values[2]
    /\ Contents(fz.testcases[fz.child], fz.lists)[2]
           # Contents(fz.testcases[fz.parent], fz.lists)[2]

-----------------------------------------------------------------------------
(* Branches: methods made of integer pushes, Ifz and If *)

\* the integers compared: both signs, and values that differ from 1 in the
\* lowest, the third, the second and the top byte only
BranchInts == {-2, -1, 0, 1, 257, 65537, 16777217}
\* the comparator texts: the ones step knows, and one it does not know
IfKnown == {"eq", "ne", "gt", "ge", "lt", "le", "is"}
UnknownCond == "xx"
\* the step budget of these runs
BranchSteps == 3

DoPushBranchInt == \E n \in BranchInts : Exec(Push(IntV(n)))
\* the branches jump back to offset 0, so that a jump differs from pc + 1
DoIfz == \E c \in IfzKnown \cup {UnknownCond} : Operands(1) /\ IsInt(0) /\ Exec(Ifz(c, 0))
DoIf ==
    \E c \in IfKnown \cup {UnknownCond} :
        Operands(2) /\ IsInt(0) /\ IsInt(1) /\ Exec(If(c, 0))

InitBranch == \E cc \in CoverageChoices : InitRun(<<>>, BranchSteps, cc[1], cc[2])
NextBranch == DoPushBranchInt \/ DoIfz \/ DoIf \/ Budget
SpecBranch == InitBranch /\ [][NextBranch]_vars

\* the last step was a branch of the class op
BranchDone(op) == last.opr.op = op /\ status # "*"
\* the frame the last step started from, and its operands
PreFrame == TopFrame(last.pre)
Operand1 == ToInt(Peek(PreFrame, 1))
Operand2 == ToInt(Peek(PreFrame, 0))

\* C27: a comparator text outside the modeled set is a fatal implementation
\* error for both branch classes: the step gives neither a successor state
\* nor an Outcome.  (If takes ok = False and goes on at pc + 1.)
C27_UnknownComparatorFatal ==
    /\ (BranchDone("ifz") /\ last.opr.c \notin IfzKnown) => status = "fault"
    /\ (BranchDone("if") /\ last.opr.c \notin IfKnown) => status = "fault"

\* what the If case does with the unknown comparator: the run goes on at
\* pc + 1 with both operands popped
IfFellThrough ==
    /\ BranchDone("if")
    /\ last.opr.c = UnknownCond
    /\ status = "run"
    /\ TopFrame(state).pc = PreFrame.pc + 1
    /\ Len(TopFrame(state).stack) = Len(PreFrame.stack) - 2

\* the hits the last step added at the k-th location after the location of
\* its pc
AuxHits(k) ==
    LET l == LocId(PreFrame.pc) + k
    IN  IF l \in DOMAIN cov.bitmap THEN cov.bitmap[l] - last.precov.bitmap[l] ELSE 0
\* the last step was an If on two integers with a Coverage whose map holds
\* the auxiliary locations of its pc
ComparedInts ==
    /\ BranchDone("if")
    /\ last.precov.on
    /\ LocId(PreFrame.pc) + 4 \in DOMAIN cov.bitmap
SameSign(a, b) == (a < 0) = (b < 0)

\* C28: on an eq or ne comparison of two integers the sign location is hit
\* whenever both operands have the same sign, both negative as well as both
\* non-negative, and is not hit when the signs differ.  (Two negative
\* operands are not rewarded.)
C28_SignHit ==
    (ComparedInts /\ last.opr.c \in {"eq", "ne"})
        => (AuxHits(4) = 1 <=> SameSign(Operand1, Operand2))

\* C29: the auxiliary hits of one comparison form a prefix of the sequence
\* sign, top byte, second byte, third byte: each location is hit at most
\* once, a byte's location only if the sign and every more significant byte
\* matched, and only eq and ne comparisons hit auxiliary locations
C29_AuxPrefix ==
    (BranchDone("if") \/ BranchDone("ifz")) /\ last.precov.on
        => /\ \A k \in 1..4 : AuxHits(k) \in {0, 1}
           /\ AuxHits(1) <= AuxHits(4)
           /\ AuxHits(2) <= AuxHits(1)
           /\ AuxHits(3) <= AuxHits(2)
           /\ last.opr.op = "if" /\ last.opr.c \in {"eq", "ne"}
                 => /\ AuxHits(4) = 1 => SameSign(Operand1, Operand2)
                    /\ \A k \in 1..3 :
                          AuxHits(k) = 1
                              => ByteOf(Operand1, 4 - k) = ByteOf(Operand2, 4 - k)
           /\ ~(last.opr.op = "if" /\ last.opr.c \in {"eq", "ne"})
                 => \A k \in 1..4 : AuxHits(k) = 0

\* an ne comparison of two integers whose sign, top byte and second byte
\* match and whose third byte differs has hit three auxiliary locations
C29_Witness ==
    /\ ComparedInts
    /\ last.opr.c = "ne"
    /\ ByteOf(Operand1, 1) # ByteOf(Operand2, 1)
    /\ AuxHits(4) = 1 /\ AuxHits(1) = 1 /\ AuxHits(2) = 1 /\ AuxHits(3) = 0

-----------------------------------------------------------------------------
(* String comparisons: methods made of literal pushes, equals and
   equalsIgnoreCase *)

\* the literals compared: "ab", "aB", "abc", "A" and ""
CmpLiterals == {<<97, 98>>, <<97, 66>>, <<97, 98, 99>>, <<65>>, <<>>}
\* the step budget of these runs
CmpSteps == 3
DoPushCmpLiteral == \E s \in CmpLiterals : Exec(Push(StrLitV(s)))

InitStrCmp ==
    \E c \in {NoCoverage, NewCoverage}, h \in HashSeeds :
        /\ (c = NoCoverage => h = HashesOfM39)
        /\ InitRun(<<>>, CmpSteps, c, h)
NextStrCmp == DoPushCmpLiteral \/ DoEquals \/ DoEqualsIgnoreCase \/ Budget
SpecStrCmp == InitStrCmp /\ [][NextStrCmp]_vars

\* the length of the longest common prefix of a and b
CommonPrefix(a, b) ==
    LET m == IF Len(a) < Len(b) THEN Len(a) ELSE Len(b)
    IN  CHOOSE n \in 0..m :
            /\ \A i \in 1..n : a[i] = b[i]
            /\ n = m \/ a[n + 1] # b[n + 1]

\* the last step was the String comparison name, with coverage, on two
\* strings
StrCompared(name) ==
    /\ last.opr.op = "invokevirtual"
    /\ last.opr.name = name
    /\ status # "*"
    /\ last.precov.on
\* the strings it compared
Compared1 == GetString(last.pre, Peek(PreFrame, 1)).s
Compared2 == GetString(last.pre, Peek(PreFrame, 0)).s
\* the longest literal plus one
CmpPositions == 1..4

\* C30: a string-equality comparison of two strings hits one auxiliary
\* location per leading position at which the strings agree (after
\* lower-casing for equalsIgnoreCase) and none from the first mismatch on:
\* as many as their longest common prefix is long.  (A location past the end
\* of the map raises instead.)
C30_PrefixHits ==
    /\ StrCompared("equals")
          => \A k \in CmpPositions :
                AuxHits(k) = IF k <= CommonPrefix(Compared1, Compared2) THEN 1 ELSE 0
    /\ StrCompared("equalsIgnoreCase")
          => \A k \in CmpPositions :
                AuxHits(k) = IF k <= CommonPrefix(Lower(Compared1), Lower(Compared2))
                             THEN 1 ELSE 0

\* the same, for the comparisons whose auxiliary locations all lie in the map
PrefixHitsInMap ==
    LocId(PreFrame.pc) + 4 \in DOMAIN cov.bitmap => C30_PrefixHits

-----------------------------------------------------------------------------
(* The hits of a run: the fuzzer's reset, then run_method step by step on a
   method that loops *)

\* the step budget of these runs: enough to take a counter past 255
HitSteps == 257
\* the runs of a session
HitRuns == 2

\* while (true) { }
TargetSpin == Program(<<Goto(0)>>)
\* while (true) { x++; }
TargetCount == Program(<<Incr(0, 1), Goto(0)>>)
\* the methods that are run: the two loops, one that returns, and one whose
\* second opcode step has no case for
HitTargets == {TargetSpin, TargetCount, TargetNoParams,
               Program(<<Incr(0, 1), Unmodeled>>)}

\* no location was hit
NoHits == [i \in 0..(COVERAGE_SIZE - 1) |-> 0]

\* a fuzzer before its first run: the interpreter's map as it was made
InitHits ==
    \E target \in HitTargets, h \in HashSeeds :
        /\ state = NewState(NewFrame(ArgLocals(<<IntV(0)>>)))
        /\ status = "idle"
        /\ steps = 0
        /\ max_steps = HitSteps
        /\ cov = NewCoverage
        /\ hseed = h
        /\ bc = target
        /\ last = NoLast
        /\ fz = [pc |-> "hits", hits |-> NoHits, runs |-> 0]

\* Fuzzer.run: coverage.reset(), then run_method sets up its frame
HitsReset ==
    /\ status # "run"
    /\ fz.runs < HitRuns
    /\ cov' = Reset(cov)
    /\ state' = NewState(NewFrame(ArgLocals(<<IntV(0)>>)))
    /\ status' = "run"
    /\ steps' = 0
    /\ last' = NoLast
    /\ fz' = [fz EXCEPT !.hits = NoHits, !.runs = @ + 1]
    /\ UNCHANGED <<max_steps, hseed, bc>>

\* one iteration of run_method's loop; the hit of its pc is counted
HitsStep ==
    /\ status = "run"
    /\ WithinBudget
    /\ LET pc == TopFrame(state).pc
           r == Step(state, bc[pc], cov)
       IN  /\ state' = r.st
           /\ cov' = r.cov
           /\ status' = StatusOf(r)
           /\ last' = [opr |-> bc[pc], pre |-> state, precov |-> cov]
           /\ fz' = [fz EXCEPT !.hits[LocId(pc)] = @ + 1]
    /\ steps' = steps + 1
    /\ UNCHANGED <<max_steps, hseed, bc>>

NextHits == HitsReset \/ HitsStep \/ Budget
SpecHits == InitHits /\ [][NextHits]_vars

\* min(255, n)
Saturated(n) == IF n < 255 THEN n ELSE 255
\* the location of the pc the last step ran at
LastLoc == LocId(TopFrame(last.pre).pc)

\* C31: each counter of the local map equals min(255, number of hits on its
\* location since the last reset), so a counter at 255 stays at 255; a step
\* makes one hit, of its pc, whatever the instruction does afterwards; and
\* the map is all zero when a fuzzer run starts.
C31_SaturatingCounters ==
    /\ \A loc \in DOMAIN cov.bitmap : cov.bitmap[loc] = Saturated(fz.hits[loc])
    /\ last.opr.op # "none" =>
          \A loc \in DOMAIN cov.bitmap :
              cov.bitmap[loc] = IF loc = LastLoc
                                THEN Saturated(last.precov.bitmap[loc] + 1)
                                ELSE last.precov.bitmap[loc]
    /\ status = "run" /\ steps = 0 => cov.bitmap = ZeroBitmap

\* a location hit more than 255 times in the second run, its counter at 255
C31_Witness ==
    /\ fz.runs = 2
    /\ \E loc \in DOMAIN cov.bitmap : fz.hits[loc] > 255 /\ cov.bitmap[loc] = 255
    /\ last.opr.op = "goto"
    /\ last.precov.bitmap[LastLoc] = 255

-----------------------------------------------------------------------------
(* The heap: methods made of literal pushes, New String, Dup, <init>,
   concat, Store and Load *)

\* the step budget of these runs
HeapSteps == 5
\* the local slots a method stores to
HeapSlots == {0, 1}

DoStoreRef == Operands(1) /\ \E i \in HeapSlots : Exec(Store(i))
DoLoadLocal == \E i \in DOMAIN TopFrame(state).locals : Exec(Load(i))

InitHeap == InitRun(<<StringV(<<65>>)>>, HeapSteps, NoCoverage, HashesOfM39)
NextHeap ==
    \/ DoPushLiteral \/ DoPushNull \/ DoNewString \/ DoDup \/ DoInitString
    \/ DoConcat \/ DoStoreRef \/ DoLoadLocal \/ Budget
SpecHeap == InitHeap /\ [][NextHeap]_vars

\* v holds an integer heap reference
IsHeapRef(v) == v.t = "ref" /\ v.k = "int"
\* the values held by the frames of st: operand stacks and local slots
HeldValues(st) ==
    UNION {Range(st.frames[i].stack) \cup Range(st.frames[i].locals) :
               i \in DOMAIN st.frames}

\* C32: every integer heap reference held in an operand stack or a local
\* slot is a key of the heap; every value of the interning table is a key of
\* the heap whose content is the table's key; next_ref is greater than every
\* heap key and is never decreased by a step.
C32_HeapRefs ==
    /\ \A v \in HeldValues(state) : IsHeapRef(v) => v.n \in DOMAIN state.heap
    /\ \A s \in DOMAIN state.string_pool :
          /\ state.string_pool[s] \in DOMAIN state.heap
          /\ state.heap[state.string_pool[s]] = s
    /\ \A r \in DOMAIN state.heap : r < state.next_ref
    /\ last.pre.next_ref <= state.next_ref

\* two literals interned, a String constructed from one of them and kept in a
\* local slot, a concatenation on the stack
C32_Witness ==
    /\ Cardinality(DOMAIN state.string_pool) = 2
    /\ \E v \in Range(TopFrame(state).locals) : Constructed(state, v) /\ state.heap[v.n] # <<>>
    /\ \E v \in Range(TopFrame(state).stack) : IsHeapRef(v)
    /\ state.next_ref >= 4
    /\ last.opr.op \in {"store", "invokevirtual"}

-----------------------------------------------------------------------------
(* The scores the corpus carries *)

\* the number of non-zero counters of the local map the run of tc's inputs
\* gives in this session
RunScore(tc) == Score(RunMethod(bc, tc.input_values, max_steps, NewCoverage).cov)

\* C33: every testcase of the corpus and of the crash list carries the score
\* of the run of its own inputs, the seed testcase included.
C33_ScoresFromRuns ==
    /\ \A i \in DOMAIN fz.corpus : fz.corpus[i].coverage_score = RunScore(fz.corpus[i])
    /\ \A i \in DOMAIN fz.crashes : fz.crashes[i].coverage_score = RunScore(fz.crashes[i])

\* the same of every testcase but the seed, which is the first of the corpus
ScoresFromRunsButSeed ==
    /\ \A i \in DOMAIN fz.corpus :
          i > 1 => fz.corpus[i].coverage_score = RunScore(fz.corpus[i])
    /\ \A i \in DOMAIN fz.crashes : fz.crashes[i].coverage_score = RunScore(fz.crashes[i])

\* the seed is in the corpus with the score 0 when the session has returned
SeedNeverRun ==
    fz.pc = "returned" => fz.corpus[1].coverage_score = 0 /\ RunScore(fz.corpus[1]) > 0

-----------------------------------------------------------------------------
(* Return: step applied to states of one frame, as run_method builds them,
   and of two frames, the case its code has for a caller *)

\* the step budget of these runs
ReturnSteps == 2
\* the ints a frame holds
ReturnInts == {-1, 0, 7}
\* the operand stacks of the returning frame
ReturnStacks ==
    {<<>>} \cup {<<IntV(v)>> : v \in ReturnInts} \cup {<<IntV(3), IntV(v)>> : v \in ReturnInts}
\* the frames of a caller, stopped at its invoke
CallerFrames ==
    {[locals |-> EmptyFn, stack |-> s, pc |-> p] : s \in {<<>>, <<IntV(5)>>}, p \in 1..2}

InitReturn ==
    \E callers \in {<<>>} \cup {<<f>> : f \in CallerFrames},
       s \in ReturnStacks, m \in 1..ReturnSteps, cc \in CoverageChoices :
        /\ state = [NewState(NewFrame(EmptyFn)) EXCEPT
                       !.frames = callers \o <<[locals |-> EmptyFn, stack |-> s, pc |-> 0]>>]
        /\ status = "run"
        /\ steps = 0
        /\ max_steps = m
        /\ cov = cc[1]
        /\ hseed = cc[2]
        /\ bc = EmptyFn
        /\ last = NoLast
        /\ fz = NoFuzzer
NextReturn == DoReturnInt \/ DoReturnVoid \/ Budget
SpecReturn == InitReturn /\ [][NextReturn]_vars

\* the frames before the last step, and the caller among them
FramesBefore == last.pre.frames
CallerBefore == FramesBefore[Len(FramesBefore) - 1]

\* C34: a return step pops the innermost frame; if a caller frame remains,
\* the returned value (if any) is pushed on the caller's operand stack, the
\* caller's pc is one more and the run goes on; if no frame remains the run
\* ends with "ok".
C34_ReturnPops ==
    last.opr.op = "return" =>
        /\ Len(state.frames) = Len(FramesBefore) - 1
        /\ Len(FramesBefore) > 1 =>
              /\ status = "run"
              /\ TopFrame(state).pc = CallerBefore.pc + 1
              /\ TopFrame(state).locals = CallerBefore.locals
              /\ TopFrame(state).stack =
                    IF last.opr.c = "int"
                    THEN Append(CallerBefore.stack, Peek(TopFrame(last.pre), 0))
                    ELSE CallerBefore.stack
        /\ Len(FramesBefore) = 1 => status = "ok"

\* a caller that was resumed with the returned int on its stack has returned
\* it in turn, and the run has ended with "ok"
C34_Witness ==
    /\ last.opr.op = "return" /\ last.opr.c = "int"
    /\ steps = 2
    /\ Len(FramesBefore) = 1
    /\ FramesBefore[1].stack = <<IntV(5), IntV(7)>>
    /\ FramesBefore[1].pc = 2
    /\ status = "ok"

-----------------------------------------------------------------------------
(* mutate_int on the whole signed 32-bit range.  Python's ints are unbounded
   and a result can lie outside the 32-bit range, so an int is held here as
   two limbs: Wide(hi, lo) stands for hi * 2^16 + lo with lo in 0..2^16 - 1 *)

Limb == 2 ^ 16
Wide(hi, lo) == [hi |-> hi, lo |-> lo]
\* val + d for a small d
WideAdd(w, d) == Wide(w.hi + ((w.lo + d) \div Limb), (w.lo + d) % Limb)
\* -val
WideNeg(w) == IF w.lo = 0 THEN Wide(0 - w.hi, 0) ELSE Wide(0 - w.hi - 1, Limb - w.lo)
\* (val & ~(0xFF << shift)) | (byte << shift), shift = 8 * b: the bits below
\* 16 are those of lo, the bits from 16 on are those of hi
WideReplaceByte(w, byte, b) ==
    IF b < 2 THEN Wide(w.hi, ReplaceByte(w.lo, byte, b))
    ELSE Wide(ReplaceByte(w.hi, byte, b - 2), w.lo)
\* (val >> 8 * b) & 0xFF
WideByteOf(w, b) == IF b < 2 THEN ByteOf(w.lo, b) ELSE ByteOf(w.hi, b - 2)
\* -2^31 <= val <= 2^31 - 1
InInt32(w) == 0 - 2 ^ 15 <= w.hi /\ w.hi <= 2 ^ 15 - 1

\* the ints mutated: the ends of the 32-bit range, the values around zero and
\* around the limb, and two values of mixed bytes
WideInputs ==
    {Wide(h, l) : h \in {0 - 2 ^ 15, -1, 0, 1, 2 ^ 15 - 1}, l \in {0, 1, Limb - 1}}
        \cup {Wide(4660, 22136), Wide(-4660, 22136)}
\* self.random.randint(0, 255)
AllBytes == 0..255
\* self.random.choice([0, 8, 16, 24]), as byte indices
AllShifts == 0..3

\* a fuzzer about to mutate the int val
InitMutateInt ==
    /\ state = NewState(NewFrame(EmptyFn))
    /\ status = "idle"
    /\ steps = 0
    /\ max_steps = 0
    /\ cov = NewCoverage
    /\ hseed = HashesOfM39
    /\ bc = EmptyFn
    /\ last = NoLast
    /\ \E w \in WideInputs :
          fz = [pc |-> "mutate_int", val |-> w, new_val |-> w, how |-> "", byte |-> 0,
                shift |-> 0]

\* mutate_int, first branch: val + mutation
MutateIntDelta ==
    /\ fz.pc = "mutate_int"
    /\ \E d \in MutDeltas :
          fz' = [fz EXCEPT !.pc = "mutated", !.new_val = WideAdd(fz.val, d), !.how = "delta"]
    /\ UNCHANGED <<state, status, steps, max_steps, cov, hseed, bc, last>>

\* mutate_int, second branch: one byte replaced
MutateIntByte ==
    /\ fz.pc = "mutate_int"
    /\ \E byte \in AllBytes, b \in AllShifts :
          fz' = [fz EXCEPT !.pc = "mutated", !.new_val = WideReplaceByte(fz.val, byte, b),
                           !.how = "byte", !.byte = byte, !.shift = b]
    /\ UNCHANGED <<state, status, steps, max_steps, cov, hseed, bc, last>>

\* mutate_int, third branch: -val
MutateIntNegate ==
    /\ fz.pc = "mutate_int"
    /\ fz' = [fz EXCEPT !.pc = "mutated", !.new_val = WideNeg(fz.val), !.how = "negate"]
    /\ UNCHANGED <<state, status, steps, max_steps, cov, hseed, bc, last>>

NextMutateInt == MutateIntDelta \/ MutateIntByte \/ MutateIntNegate
SpecMutateInt == InitMutateInt /\ [][NextMutateInt]_vars

\* the byte replacement gave the 32-bit value whose byte fz.shift is the byte
\* drawn and whose other three bytes are those of the input
OnlyThatByte ==
    /\ InInt32(fz.new_val)
    /\ \A b \in AllShifts :
          WideByteOf(fz.new_val, b) = IF b = fz.shift THEN fz.byte ELSE WideByteOf(fz.val, b)

\* C35: for an input in the signed 32-bit range, each mutation of mutate_int
\* returns a value in the signed 32-bit range, and the byte replacement
\* changes only the 8 bits of the chosen byte of the input's 32-bit
\* two's-complement representation.
C35_MutationsInRange ==
    fz.pc = "mutated" /\ InInt32(fz.val) =>
        /\ InInt32(fz.new_val)
        /\ fz.how = "byte" => OnlyThatByte

\* what holds of the byte replacement: below the top byte it changes that
\* byte only; in the top byte the result is in range only if the byte drawn
\* has the sign bit of the input
LowBytesReplaced ==
    fz.pc = "mutated" /\ fz.how = "byte" =>
        /\ fz.shift < 3 => OnlyThatByte
        /\ fz.shift = 3 => (InInt32(fz.new_val) <=> ((fz.byte >= 128) <=> (fz.val.hi < 0)))
\* the delta and the negation leave the range only at its ends
EndsLeaveRange ==
    fz.pc = "mutated" /\ fz.how \in {"delta", "negate"} /\ ~InInt32(fz.new_val) =>
        \/ fz.val.hi = 2 ^ 15 - 1 /\ fz.val.lo >= Limb - 42
        \/ fz.val.hi = 0 - 2 ^ 15 /\ fz.val.lo < 42

-----------------------------------------------------------------------------
(* The locations passed to hit_loc *)

\* C36: every location index passed to hit_loc, the location of the pc and
\* the auxiliary locations of the comparison feedback, lies in the map, so
\* no hit fails (the map's ok flag records a hit that indexed past its end).
C36_LocationsInMap == cov.ok

\* a hit fails only in the feedback of an integer comparison whose location
\* lies within four of the end of the map; the hit of the pc never fails
FailsInAuxOnly ==
    ~cov.ok =>
        /\ last.opr.op = "if"
        /\ LocId(PreFrame.pc) + 4 >= COVERAGE_SIZE
        /\ last.precov.ok
        /\ HitPc(last.precov, PreFrame.pc).ok
        /\ status = "fault"

-----------------------------------------------------------------------------
(* Invokes: methods made of pushes, loads, New, the three invokes and
   Return *)

\* the step budget of these runs
InvokeSteps == 3
\* the String operations the InvokeVirtual case has a case for
ModeledStringOps == {"length", "concat", "equals", "equalsIgnoreCase", "charAt", "substring"}
\* the descriptors the String.<init> case has a case for
ModeledInitDescs == {"(Ljava/lang/String;)", "()", "([C)"}
\* the methods invoked by InvokeVirtual: one of another class, and a method
\* of String that has no case
VirtualTargets == {<<"java/io/PrintStream", "println">>, <<JString, "isEmpty">>}
\* the methods invoked by InvokeSpecial: a constructor of another class, a
\* private method of String, and a constructor of String that has no case
SpecialTargets ==
    {<<"java/lang/AssertionError", "<init>", "()">>, <<JString, "helper", "()">>,
     <<JString, "<init>", "([B)">>}

DoInvokeStatic == Exec(InvokeStatic)
DoInvokeVirtual == \E m \in VirtualTargets : Exec(InvokeVirtual(m[1], m[2]))
DoInvokeSpecial == \E m \in SpecialTargets : Exec(InvokeSpecial(m[1], m[2], m[3]))

InitInvoke ==
    \E cc \in CoverageChoices : InitRun(<<StringV(<<97>>)>>, InvokeSteps, cc[1], cc[2])
NextInvoke ==
    \/ DoPushZero \/ DoLoadArg \/ DoNewObject \/ DoInvokeStatic \/ DoInvokeVirtual
    \/ DoInvokeSpecial \/ DoReturnVoid \/ Budget
SpecInvoke == InitInvoke /\ [][NextInvoke]_vars

\* the last step was an invoke
Invoked == last.opr.op \in {"invokestatic", "invokespecial", "invokevirtual"}
\* ... of a String operation the interpreter has a case for
InvokedModeled ==
    \/ last.opr.op = "invokevirtual" /\ last.opr.cls = JString
          /\ last.opr.name \in ModeledStringOps
    \/ last.opr.op = "invokespecial" /\ last.opr.cls = JString /\ last.opr.name = "<init>"
          /\ last.opr.desc \in ModeledInitDescs
\* ... of a virtual method or a constructor of String
InvokedOfString ==
    \/ last.opr.op = "invokevirtual" /\ last.opr.cls = JString
    \/ last.opr.op = "invokespecial" /\ last.opr.cls = JString /\ last.opr.name = "<init>"
\* the step only added one to the pc: stack, locals and heap are as before
OnlyAdvanced ==
    /\ status = "run"
    /\ state = SetTop(last.pre, Adv(TopFrame(last.pre)))

\* C37 as claimed: a run holds exactly one frame until it ends, and every
\* invoke that is not a modeled String operation only advances the pc.
C37_EveryOtherInvokeSkips ==
    /\ status = "run" => Len(state.frames) = 1
    /\ Invoked /\ ~InvokedModeled => OnlyAdvanced

\* C37: a run holds exactly one frame until it ends; an invoke that is not of
\* a virtual method or a constructor of String only advances the pc by one,
\* leaving the operand stack, the locals and the heap as they were; an invoke
\* of a virtual method or a constructor of String that is not modeled raises.
C37_NoFramePushed ==
    /\ status = "run" => Len(state.frames) = 1
    /\ Invoked /\ ~InvokedOfString => OnlyAdvanced
    /\ Invoked /\ InvokedOfString /\ ~InvokedModeled =>
          status = "fault" /\ state = last.pre

\* a virtual method of another class was invoked with the receiver and an
\* argument on the stack: both are still there and the pc is one more
C37_Witness ==
    /\ last.opr.op = "invokevirtual" /\ last.opr.cls # JString
    /\ Len(TopFrame(state).stack) = 2
    /\ TopFrame(state).pc = 3
    /\ Len(state.frames) = 1
    /\ status = "run"

-----------------------------------------------------------------------------
(* String operations on a null receiver: methods made of pushes of null, of
   the String argument and of indices, length, charAt and substring *)

\* the step budget of these runs
NullSteps == 4

DoLength == Operands(1) /\ IsStr(0) /\ Exec(InvokeVirtual(JString, "length"))

InitNull ==
    \E cc \in CoverageChoices : InitRun(<<StringV(<<97, 98>>)>>, NullSteps, cc[1], cc[2])
NextNull ==
    \/ DoPushNull \/ DoLoadArg \/ DoPushIndex \/ DoLength \/ DoCharAt \/ DoSubstring
    \/ Budget
SpecNull == InitNull /\ [][NextNull]_vars

\* the last step was the String operation name on a null receiver, the
\* receiver lying under args arguments
OnNull(name, args) ==
    /\ last.opr.op = "invokevirtual" /\ last.opr.cls = JString /\ last.opr.name = name
    /\ Peek(PreFrame, args).k = "none"

\* C38: charAt and substring on a null receiver end the run with "out of
\* bounds", whatever the indices, and length on a null receiver ends it with
\* "null pointer".
C38_NullReceiver ==
    /\ OnNull("charAt", 1) => status = "out of bounds"
    /\ OnNull("substring", 2) => status = "out of bounds"
    /\ OnNull("length", 0) => status = "null pointer"

\* charAt(1) on null, an index that is in the bounds of the argument
C38_Witness ==
    /\ OnNull("charAt", 1)
    /\ Peek(PreFrame, 0) = IntV(1)
    /\ status = "out of bounds"

-----------------------------------------------------------------------------
(* A target with no parameters *)

\* C39: for a target with no parameters every iteration derives a child with
\* an empty input list and runs it: the session never fails while choosing a
\* value to mutate, and ends by returning a score.
C39_NoParamsRuns ==
    fz.params = <<>> =>
        /\ fz.pc # "raised"
        /\ fz.iteration > 0 => fz.pc \in {"running", "top", "returned"}

\* what the session of such a target does: its method is never run, no
\* testcase joins the seed, and the first iteration that starts raises
NoParamsNeverRuns ==
    fz.params = <<>> =>
        /\ fz.pc # "running"
        /\ Len(fz.corpus) <= 1
        /\ fz.iteration > 0 => fz.pc = "raised" /\ fz.iteration = 1

====
